---------------------------- MODULE Spec2Model ----------------------------
(***************************************************************************)
(* The exported SCORM package of src/server/scorm-exporter.ts: the app.js  *)
(* attempt state machine (state object, timer callback, DOM handlers), the *)
(* variant generator and the answer-presence rule.  JS arrays are TLA+     *)
(* sequences holding the same 0-based values; At(a, i) reads a[i].         *)
(***************************************************************************)
EXTENDS Integers, Sequences, FiniteSets, TLC

VARIABLES
  TEST_DATA,     \* the embedded test definition (never written after load)
  lmsApi,        \* TRUE when window.API_1484_11 is found by SCORM.getAPI
  suspendData,   \* the LMS's cmi.suspend_data: <<>> for "", <<n>> for {attemptsUsed: n}
  state,         \* the app's `state` object
  dom,           \* what render() last put on screen
  toast,         \* the notice shown by the last handler call
  finishCalls,   \* finishScorm invocations since the last restart (history)
  timerSubmits,  \* submit() calls made by updateTimer since the last restart (history)
  ignored,       \* the last handler call was an answer handler that returned at its lock check (history)
  call,          \* a single call of a pure function: its inputs and its result
  faulty,        \* TRUE when the LMS API may throw on GetValue, SetValue and Commit
  threw,         \* the last handler call: "no" API call threw, every throw was "caught", or one "escaped" (history)
  scormReturns,  \* the values SCORM.init/setValue/commit/terminate returned in the last handler call (history)
  apiCalls,      \* the calls the last handler call made on the LMS API, in order (history)
  apiProbes      \* the API discovery walks getAPI made in the last handler call (history)

vars == <<TEST_DATA, lmsApi, suspendData, state, dom, toast, finishCalls,
          timerSubmits, ignored, call, faulty, threw, scormReturns, apiCalls,
          apiProbes>>

-----------------------------------------------------------------------------
(* Bounds of the model *)

MaxMinutes == 1
MaxAttemptsCfg == 1
MaxLeft == 2
MaxRight == 2
MaxOptions == 3
MaxRuleValue == 3
MaxPossible == 3
MaxDraw == 4
MaxPending == 2

(* Program constants *)

SecondsPerMinute == 60
NullSeconds == -1

-----------------------------------------------------------------------------
(* JS values *)

At(a, i) == a[i + 1]

Undef == [kind |-> "undefined", num |-> 0, list |-> <<>>, map |-> {}]
Num(n) == [kind |-> "number", num |-> n, list |-> <<>>, map |-> {}]
Arr(s) == [kind |-> "array", num |-> 0, list |-> s, map |-> {}]
Obj(m) == [kind |-> "object", num |-> 0, list |-> <<>>, map |-> m]

\* !x for the answer values above
Falsy(a) == a.kind = "undefined" \/ (a.kind = "number" /\ a.num = 0)

\* arr.indexOf(x), -1 when absent
IndexOf(arr, x) ==
  IF \E i \in 1..Len(arr) : arr[i] = x
  THEN (CHOOSE i \in 1..Len(arr) : arr[i] = x /\ \A j \in 1..(i - 1) : arr[j] # x) - 1
  ELSE -1

\* the entries of a list, as a set
Entries(l) == {l[i] : i \in 1..Len(l)}

\* arr.splice(pos, 1)
Splice1(arr, pos) ==
  [i \in 1..(Len(arr) - 1) |-> IF i <= pos THEN arr[i] ELSE arr[i + 1]]

\* arr.slice(0, n)
SliceTo(arr, n) == [i \in 1..(IF n < Len(arr) THEN n ELSE Len(arr)) |-> arr[i]]

\* the array with the entries at 0-based positions i and j exchanged
Swap(arr, i, j) ==
  [k \in 1..Len(arr) |->
     IF k = i + 1 THEN arr[j + 1] ELSE IF k = j + 1 THEN arr[i + 1] ELSE arr[k]]

\* the identity order q.data.xs.map(function(_, i) { return i; })
Indices(n) == [i \in 1..n |-> i - 1]

\* Object.keys(pairs) of a matching answer, a set of <<left, right>> pairs
Keys(m) == {p[1] : p \in m}

\* delete pairs[l]
Delete(m, l) == {p \in m : p[1] # l}

\* pairs[l] = r
Assign(m, l, r) == Delete(m, l) \cup {<<l, r>>}

-----------------------------------------------------------------------------
(* Scoring: checkAnswer returns a number in [0, 1], kept here as the fraction *)
(* num / den with den > 0.                                                    *)

Null == [kind |-> "null", num |-> 0, list |-> <<>>, map |-> {}]

Ratio(n, d) == [num |-> n, den |-> d]

\* === on two numbers kept as fractions
SameNumber(a, b) == a.num * b.den = b.num * a.den

\* the `correct` payload of a question: fields a type does not use are empty
Correct(idx, indices, pairs, order) ==
  [correctIndex |-> idx, correctIndices |-> indices, pairs |-> pairs,
   correctOrder |-> order]

\* pairs[l] of a matching answer: <<r>> when assigned, <<>> when undefined
Lookup(m, l) == IF \E p \in m : p[1] = l THEN <<(CHOOSE p \in m : p[1] = l)[2]>> ELSE <<>>

RECURSIVE CountSelections(_, _, _, _)
\* the answerList.forEach of the multiple branch over the first k entries: the
\* selections found in correctSet (inSet = TRUE) or not found in it (inSet = FALSE)
CountSelections(answerList, correctIndices, inSet, k) ==
  IF k = 0 THEN 0
  ELSE CountSelections(answerList, correctIndices, inSet, k - 1)
       + (IF (IndexOf(correctIndices, answerList[k]) >= 0) = inSet THEN 1 ELSE 0)

RECURSIVE CountPairs(_, _, _)
\* the for loop of the matching branch over the first k correct pairs
CountPairs(pairs, correctPairs, k) ==
  IF k = 0 THEN 0
  ELSE CountPairs(pairs, correctPairs, k - 1)
       + (IF Lookup(pairs, correctPairs[k][1]) = <<correctPairs[k][2]>> THEN 1 ELSE 0)

RECURSIVE CountPositions(_, _, _)
\* the for loop of the ranking branch over the first k positions
CountPositions(order, correctOrder, k) ==
  IF k = 0 THEN 0
  ELSE CountPositions(order, correctOrder, k - 1)
       + (IF order[k] = correctOrder[k] THEN 1 ELSE 0)

checkSingle(q, answer) ==
  IF answer.kind = "number" /\ answer.num = q.correct.correctIndex
  THEN Ratio(1, 1) ELSE Ratio(0, 1)

\* the multiple branch without Math.max(0, ...)
checkMultiple_noFloor(q, answer) ==
  LET correctIndices == q.correct.correctIndices
      totalCorrect == Len(correctIndices)
      answerList == IF answer.kind = "array" THEN answer.list ELSE <<>>
  IN IF totalCorrect = 0 THEN Ratio(0, 1)
     ELSE Ratio(CountSelections(answerList, correctIndices, TRUE, Len(answerList))
                - CountSelections(answerList, correctIndices, FALSE, Len(answerList)),
                totalCorrect)

\* the multiple branch without the incorrectSelections counter
checkMultiple_noPenalty(q, answer) ==
  LET correctIndices == q.correct.correctIndices
      totalCorrect == Len(correctIndices)
      answerList == IF answer.kind = "array" THEN answer.list ELSE <<>>
  IN IF totalCorrect = 0 THEN Ratio(0, 1)
     ELSE Ratio(CountSelections(answerList, correctIndices, TRUE, Len(answerList)),
                totalCorrect)

checkMultiple(q, answer) ==
  LET correctIndices == q.correct.correctIndices
      totalCorrect == Len(correctIndices)
      answerList == IF answer.kind = "array" THEN answer.list ELSE <<>>
      correctSelections == CountSelections(answerList, correctIndices, TRUE, Len(answerList))
      incorrectSelections == CountSelections(answerList, correctIndices, FALSE, Len(answerList))
  IN IF totalCorrect = 0 THEN Ratio(0, 1)
     ELSE IF correctSelections - incorrectSelections < 0 THEN Ratio(0, 1)
     ELSE Ratio(correctSelections - incorrectSelections, totalCorrect)

\* the matching branch counting every assigned left item of a correct pair
checkMatching_anyRight(q, answer) ==
  LET pairs == IF answer.kind = "object" THEN answer.map ELSE {}
      correctPairs == q.correct.pairs
      totalPairs == Len(correctPairs)
  IN IF totalPairs = 0 THEN Ratio(0, 1)
     ELSE Ratio(Cardinality({k \in 1..totalPairs : Lookup(pairs, correctPairs[k][1]) # <<>>}),
                totalPairs)

checkMatching(q, answer) ==
  LET pairs == IF answer.kind = "object" THEN answer.map ELSE {}
      correctPairs == q.correct.pairs
      totalPairs == Len(correctPairs)
  IN IF totalPairs = 0 THEN Ratio(0, 1)
     ELSE Ratio(CountPairs(pairs, correctPairs, totalPairs), totalPairs)

\* the ranking branch without its order.length !== correctOrder.length line
checkRanking_noLengthCheck(q, answer) ==
  LET order == IF answer.kind = "array" THEN answer.list ELSE <<>>
      correctOrder == q.correct.correctOrder
      shorter == IF Len(order) < Len(correctOrder) THEN Len(order) ELSE Len(correctOrder)
  IN IF Len(correctOrder) = 0 THEN Ratio(0, 1)
     ELSE Ratio(CountPositions(order, correctOrder, shorter), Len(correctOrder))

\* the ranking branch giving credit only to a fully correct order
checkRanking_allOrNothing(q, answer) ==
  LET order == IF answer.kind = "array" THEN answer.list ELSE <<>>
      correctOrder == q.correct.correctOrder
  IN IF order = correctOrder /\ Len(correctOrder) > 0 THEN Ratio(1, 1) ELSE Ratio(0, 1)

checkRanking(q, answer) ==
  LET order == IF answer.kind = "array" THEN answer.list ELSE <<>>
      correctOrder == q.correct.correctOrder
  IN IF Len(correctOrder) = 0 THEN Ratio(0, 1)
     ELSE IF Len(order) # Len(correctOrder) THEN Ratio(0, 1)
     ELSE Ratio(CountPositions(order, correctOrder, Len(order)), Len(correctOrder))

checkAnswer(q, answer) ==
  IF answer.kind \in {"undefined", "null"} THEN Ratio(0, 1)
  ELSE IF q.type = "single" THEN checkSingle(q, answer)
  ELSE IF q.type = "multiple" THEN checkMultiple(q, answer)
  ELSE IF q.type = "matching" THEN checkMatching(q, answer)
  ELSE IF q.type = "ranking" THEN checkRanking(q, answer)
  ELSE Ratio(0, 1)

-----------------------------------------------------------------------------
(* Pass rules.  A percentage is a fraction as well; a rule is null or has a  *)
(* type ('percent', else a count of fully correct questions) and a value.    *)

NoRule == [type |-> "null", value |-> 0]

Rule(t, v) == [type |-> t, value |-> v]

\* a >= v for a fraction a and an integer v
AtLeast(a, v) == a.num >= v * a.den

\* the percent branch with > in place of >=
checkPassRuleWithPartial_strict(rule, percent, fullyCorrectCount) ==
  IF rule = NoRule THEN TRUE
  ELSE IF rule.type = "percent" THEN ~AtLeast(Ratio(rule.value * percent.den, 1), percent.num)
  ELSE fullyCorrectCount >= rule.value

checkPassRuleWithPartial(rule, percent, fullyCorrectCount) ==
  IF rule = NoRule THEN TRUE
  ELSE IF rule.type = "percent" THEN AtLeast(percent, rule.value)
  ELSE fullyCorrectCount >= rule.value

-----------------------------------------------------------------------------
(* The test definition *)

Question(t, nOpt, nLeft, nRight, nItems) ==
  [type |-> t, optCount |-> nOpt, leftCount |-> nLeft, rightCount |-> nRight,
   itemCount |-> nItems]

\* correct: q.correctJson, points: q.points || 1
Keyed(q, c, p) == q @@ [correct |-> c, points |-> p, prompt |-> "prompt"]

\* the question pool of the embedded test, by question id
Bank ==
  [q1 |-> Keyed(Question("single", 2, 0, 0, 0), Correct(1, <<>>, <<>>, <<>>), 1),
   q2 |-> Keyed(Question("multiple", 2, 0, 0, 0), Correct(0, <<0, 1>>, <<>>, <<>>), 2),
   q3 |-> Keyed(Question("matching", 0, 2, 2, 0),
                Correct(0, <<>>, << <<0, 1>>, <<1, 0>> >>, <<>>), 1),
   q4 |-> Keyed(Question("ranking", 0, 0, 0, 2), Correct(0, <<>>, <<>>, <<1, 0>>), 1)]

QIds == DOMAIN Bank

Section(t, qs, n) ==
  [topicId |-> t, questions |-> qs, drawCount |-> n, topicPassRule |-> NoRule]

\* topicPassRule: s.topicPassRuleJson
WithRule(section, rule) == [section EXCEPT !.topicPassRule = rule]

\* the section lists of the tests the model runs
SectionLists ==
  { << Section("t0", <<>>, 0) >>,
    << Section("t1", <<"q1">>, 1), Section("t2", <<"q4">>, 1) >>,
    << Section("t3", <<"q2", "q3">>, 1) >> }

\* the pass rules of the sections of the tests below
TopicRules == {NoRule, Rule("percent", 100), Rule("absolute", 1)}

\* the tests whose reports are checked: sections with and without a pass rule,
\* one of them over a topic that has no question
RuledSectionLists ==
  { << WithRule(Section("t1", <<"q1", "q2">>, 2), r1), WithRule(Section("t2", <<>>, 0), r2) >> :
      r1 \in TopicRules, r2 \in TopicRules }
  \cup
  { << WithRule(Section("t1", <<"q2">>, 1), r1), WithRule(Section("t2", <<"q3", "q4">>, 1), r2) >> :
      r1 \in TopicRules, r2 \in TopicRules }

RuledTests ==
  [sections : RuledSectionLists,
   showCorrectAnswers : {FALSE},
   timeLimitMinutes : {0},
   maxAttempts : {0},
   overallPassRule : {Rule("percent", 50), Rule("absolute", 2)}]

Tests ==
  [sections : SectionLists,
   showCorrectAnswers : BOOLEAN,
   timeLimitMinutes : {0, MaxMinutes},
   maxAttempts : {0, MaxAttemptsCfg},
   overallPassRule : {Rule("percent", 50)}]

-----------------------------------------------------------------------------
(* Variant generator *)

RECURSIVE ShuffleFrom(_, _)
ShuffleFrom(arr, i) ==
  IF i <= 0 THEN {arr}
  ELSE UNION {ShuffleFrom(Swap(arr, i, j), i - 1) : j \in 0..i}

RECURSIVE ShuffleFrom_noSelfSwap(_, _)
ShuffleFrom_noSelfSwap(arr, i) ==
  IF i <= 0 THEN {arr}
  ELSE UNION {ShuffleFrom_noSelfSwap(Swap(arr, i, j), i - 1) : j \in 0..(i - 1)}

\* the shuffle with j drawn below i: Math.floor(Math.random() * i)
shuffle_noSelfSwap(arr) == ShuffleFrom_noSelfSwap(arr, Len(arr) - 1)

\* every array Fisher-Yates can return, over the choices of j
shuffle(arr) == ShuffleFrom(arr, Len(arr) - 1)

createShuffleMapping(length) == shuffle(Indices(length))

NoMapping == [kind |-> "undefined", arr |-> <<>>, left |-> <<>>, right |-> <<>>]
ArrMapping(a) == [kind |-> "array", arr |-> a, left |-> <<>>, right |-> <<>>]
ObjMapping(l, r) == [kind |-> "object", arr |-> <<>>, left |-> l, right |-> r]

\* the shuffle mappings generateVariant can store for one drawn question
MappingChoices(q) ==
  IF q.type \in {"single", "multiple"}
  THEN IF q.optCount > 0
       THEN {ArrMapping(a) : a \in createShuffleMapping(q.optCount)}
       ELSE {NoMapping}
  ELSE IF q.type = "matching"
  THEN IF q.leftCount > 0 /\ q.rightCount > 0
       THEN {ObjMapping(l, r) : l \in createShuffleMapping(q.leftCount),
                                r \in createShuffleMapping(q.rightCount)}
       ELSE {NoMapping}
  ELSE IF q.type = "ranking" /\ q.itemCount > 0
       THEN {ArrMapping(a) : a \in createShuffleMapping(q.itemCount)}
       ELSE {NoMapping}

RECURSIVE DrawSections_withReplacement(_, _)
\* per section, drawCount independent picks from the pool
DrawSections_withReplacement(sections, k) ==
  IF k = 0 THEN {<<>>}
  ELSE {Append(prev, picks) :
          prev \in DrawSections_withReplacement(sections, k - 1),
          picks \in [1..Len(SliceTo(sections[k].questions, sections[k].drawCount))
                       -> {sections[k].questions[i] : i \in 1..Len(sections[k].questions)}]}

RECURSIVE DrawSections(_, _)
\* per section, the drawn question ids: a shuffled copy of the pool cut to drawCount
DrawSections(sections, k) ==
  IF k = 0 THEN {<<>>}
  ELSE {Append(prev, SliceTo(sh, sections[k].drawCount)) :
          prev \in DrawSections(sections, k - 1),
          sh \in shuffle(sections[k].questions)}

RECURSIVE FlatOf(_, _, _)
\* state.flatQuestions before the final shuffle: sections in order, questions in draw order
FlatOf(sections, draws, k) ==
  IF k = 0 THEN <<>>
  ELSE FlatOf(sections, draws, k - 1) \o
       [i \in 1..Len(draws[k]) |->
          [question |-> draws[k][i], topicId |-> sections[k].topicId]]

RECURSIVE MappingsOf(_, _)
\* state.shuffleMappings over the drawn questions, in the order they are visited
MappingsOf(flat, k) ==
  IF k = 0 THEN {[id \in QIds |-> NoMapping]}
  ELSE {[prev EXCEPT ![flat[k].question] = m] :
          prev \in MappingsOf(flat, k - 1),
          m \in MappingChoices(Bank[flat[k].question])}

\* a drawn ranking question starting from the original order of its items
RankingInit_originalOrder(answers, flat, maps) ==
  [id \in QIds |->
     IF /\ \E i \in 1..Len(flat) : flat[i].question = id
        /\ Bank[id].type = "ranking"
        /\ Bank[id].itemCount > 0
        /\ Falsy(answers[id])
     THEN Arr(Indices(Bank[id].itemCount))
     ELSE answers[id]]

\* a drawn ranking question with items and no answer yet starts from its shuffled order
RankingInit(answers, flat, maps) ==
  [id \in QIds |->
     IF /\ \E i \in 1..Len(flat) : flat[i].question = id
        /\ Bank[id].type = "ranking"
        /\ Bank[id].itemCount > 0
        /\ Falsy(answers[id])
     THEN Arr(maps[id].arr)
     ELSE answers[id]]

\* every outcome of generateVariant() when state.answers is `answers`
generateVariant(answers) ==
  LET sections == TEST_DATA.sections IN
  UNION {
    LET flat0 == FlatOf(sections, draws, Len(sections)) IN
    {[variant |-> [i \in 1..Len(sections) |->
                     [topicId |-> sections[i].topicId, questionIds |-> draws[i]]],
      flatQuestions |-> flat,
      shuffleMappings |-> maps,
      answers |-> RankingInit(answers, flat0, maps)] :
        maps \in MappingsOf(flat0, Len(flat0)),
        flat \in shuffle(flat0)} :
    draws \in DrawSections(sections, Len(sections))}

-----------------------------------------------------------------------------
(* Answer presence *)

\* hasAnswer(q, answer) for a question q of the pool (the !q case never arises:
\* requireAnswerOrToast returns before it).  Object.keys of an array are its
\* indices; every stored right index is a number.
hasAnswer(q, answer) ==
  IF q.type = "single" THEN answer.kind = "number"
  ELSE IF q.type = "multiple" THEN answer.kind = "array" /\ Len(answer.list) > 0
  ELSE IF q.type = "matching"
  THEN IF Falsy(answer) \/ answer.kind \notin {"object", "array"} THEN FALSE
       ELSE LET need == q.leftCount
                keys == IF answer.kind = "array"
                        THEN 0..(Len(answer.list) - 1)
                        ELSE Keys(answer.map)
            IN Cardinality(keys) = need
  ELSE IF q.type = "ranking" THEN TRUE
  ELSE answer.kind # "undefined"

-----------------------------------------------------------------------------
(* The running package: every JS function maps the world before the call to *)
(* the world after it.                                                      *)

\* which API calls of one handler call throw: its 1st, 2nd and 3rd read of
\* cmi.suspend_data, its write of cmi.suspend_data and the commit after that write
NoFaults == [get |-> <<FALSE, FALSE, FALSE>>, set |-> FALSE, commit |-> FALSE]

\* the choices for a handler call that reads the counter up to `reads` times and
\* writes it if `writes`
FaultChoices(reads, writes) ==
  IF lmsApi /\ faulty
  THEN {f \in [get : [1..3 -> BOOLEAN], set : BOOLEAN, commit : BOOLEAN] :
          /\ \A k \in 1..3 : k > reads => ~f.get[k]
          /\ ~writes => (~f.set /\ ~f.commit)}
  ELSE {NoFaults}

\* the world a handler call starts from; nread counts its reads of cmi.suspend_data,
\* raised is TRUE while an exception is propagating
WorldOf(s, d, sd, fc, ts, f) ==
  [state |-> s, dom |-> d, toast |-> "none", suspendData |-> sd,
   finishCalls |-> fc, timerSubmits |-> ts, ignored |-> FALSE,
   faults |-> f, nread |-> 0, threw |-> FALSE, raised |-> FALSE, scormReturns |-> {},
   apiCalls |-> <<>>, probes |-> 0]

World == WorldOf(state, dom, suspendData, finishCalls, timerSubmits, NoFaults)

EmptyAnswers == [id \in QIds |-> Undef]

\* the `state` literal of app.js
InitialState ==
  [phase |-> "start", currentIndex |-> 0, answers |-> EmptyAnswers,
   variant |-> <<>>, flatQuestions |-> <<>>,
   shuffleMappings |-> [id \in QIds |-> NoMapping],
   timerInterval |-> "null", remainingSeconds |-> NullSeconds,
   timeExpired |-> FALSE, submitted |-> FALSE, answerConfirmed |-> FALSE,
   feedbackShown |-> FALSE]

showToast(w, message) == [w EXCEPT !.toast = message]

-----------------------------------------------------------------------------
(* The report *)

\* a + b on two numbers kept as fractions
Plus(a, b) == Ratio(a.num * b.den + b.num * a.den, a.den * b.den)

\* qPoints * scoreRatio
Times(k, a) == Ratio(k * a.num, a.den)

\* (earned / possible) * 100, 0 when nothing is possible
Percent(earned, possible) ==
  IF possible > 0 THEN Ratio(100 * earned.num, earned.den * possible) ELSE Ratio(0, 1)

\* the totals of the forEach of calculateResults, overall or of one topic
Totals(c, t, e, p) ==
  [correct |-> c, total |-> t, earnedPoints |-> e, possiblePoints |-> p]

\* one pass of the forEach counting every question with a positive score as
\* fully correct
Tally_countPartial(sofar, scoreRatio, qPoints) ==
  Totals(sofar.correct + (IF scoreRatio.num > 0 THEN 1 ELSE 0),
         sofar.total + 1,
         Plus(sofar.earnedPoints, Times(qPoints, scoreRatio)),
         sofar.possiblePoints + qPoints)

\* one pass of the forEach of calculateResults: correct++ when scoreRatio === 1,
\* earnedPoints += qPoints * scoreRatio, possiblePoints += qPoints
Tally(sofar, scoreRatio, qPoints) ==
  Totals(sofar.correct + (IF SameNumber(scoreRatio, Ratio(1, 1)) THEN 1 ELSE 0),
         sofar.total + 1,
         Plus(sofar.earnedPoints, Times(qPoints, scoreRatio)),
         sofar.possiblePoints + qPoints)

RECURSIVE TotalsOf(_, _, _, _)
\* the state.flatQuestions.forEach of calculateResults over the first k questions,
\* counting the questions whose topic is in `topics`: the fully correct count, the
\* question count, the earned and the possible points
TotalsOf(flatQuestions, answers, topics, k) ==
  IF k = 0 THEN Totals(0, 0, Ratio(0, 1), 0)
  ELSE IF flatQuestions[k].topicId \notin topics
  THEN TotalsOf(flatQuestions, answers, topics, k - 1)
  ELSE Tally(TotalsOf(flatQuestions, answers, topics, k - 1),
             checkAnswer(Bank[flatQuestions[k].question], answers[flatQuestions[k].question]),
             Bank[flatQuestions[k].question].points)

RECURSIVE TopicIds(_, _)
\* Object.keys(topicData): the topics of the first k questions, in order of first use
TopicIds(flatQuestions, k) ==
  IF k = 0 THEN <<>>
  ELSE LET sofar == TopicIds(flatQuestions, k - 1)
       IN IF \E i \in 1..Len(sofar) : sofar[i] = flatQuestions[k].topicId THEN sofar
          ELSE Append(sofar, flatQuestions[k].topicId)

\* TEST_DATA.sections.find(function(s) { return s.topicId === tid; })
SectionOf(tid) ==
  LET sections == TEST_DATA.sections
  IN sections[CHOOSE i \in 1..Len(sections) :
                /\ sections[i].topicId = tid
                /\ \A j \in 1..(i - 1) : sections[j].topicId # tid]

\* the entry of one topic with the percentage taken over question counts
TopicEntry_countPercent(tid, td, passRule) ==
  LET percent == Percent(Ratio(td.correct, 1), td.total)
  IN [topicId |-> tid, correct |-> td.correct, total |-> td.total,
      earnedPoints |-> td.earnedPoints, possiblePoints |-> td.possiblePoints,
      passRule |-> passRule, percent |-> percent,
      passed |-> IF passRule # NoRule
                 THEN <<checkPassRuleWithPartial(passRule, percent, td.correct)>>
                 ELSE <<>>]

\* the entry topicResults gets from the totals td of one topic; passed is <<>> for
\* null, else <<TRUE>> or <<FALSE>>
TopicEntry(tid, td, passRule) ==
  LET percent == Percent(td.earnedPoints, td.possiblePoints)
  IN [topicId |-> tid, correct |-> td.correct, total |-> td.total,
      earnedPoints |-> td.earnedPoints, possiblePoints |-> td.possiblePoints,
      passRule |-> passRule, percent |-> percent,
      passed |-> IF passRule # NoRule
                 THEN <<checkPassRuleWithPartial(passRule, percent, td.correct)>>
                 ELSE <<>>]

\* one entry of topicResults
TopicResult(flatQuestions, answers, tid) ==
  TopicEntry(tid, TotalsOf(flatQuestions, answers, {tid}, Len(flatQuestions)),
             SectionOf(tid).topicPassRule)

Report(c, t, e, p, pct, ok, trs) ==
  [correct |-> c, totalQuestions |-> t, earnedPoints |-> e, possiblePoints |-> p,
   percent |-> pct, passed |-> ok, topicResults |-> trs]

\* what the page holds before renderResults has run
NoReport == Report(0, 0, Ratio(0, 1), 0, Ratio(0, 1), FALSE, <<>>)

\* allTopicsPassed without the per-topic rules
AllTopicsPassed_ignored(topicResults) == TRUE

\* no topic with a rule has td.passed false
AllTopicsPassed(topicResults) ==
  \A i \in 1..Len(topicResults) : topicResults[i].passed # <<FALSE>>

\* the object calculateResults returns, from the overall totals and the topic results
Overall(all, topicResults) ==
  LET overallPercent == Percent(all.earnedPoints, all.possiblePoints)
      overallPassed == checkPassRuleWithPartial(TEST_DATA.overallPassRule, overallPercent,
                                                all.correct)
  IN Report(all.correct, all.total, all.earnedPoints, all.possiblePoints, overallPercent,
            overallPassed /\ AllTopicsPassed(topicResults), topicResults)

\* the topicResults of calculateResults, one entry for each of `tids`
TopicResults(flat, answers, tids) ==
  [i \in 1..Len(tids) |-> TopicResult(flat, answers, tids[i])]

\* calculateResults on the first k questions of the variant
ReportOf(flatQuestions, answers, k) ==
  LET flat == SubSeq(flatQuestions, 1, k)
  IN Overall(TotalsOf(flat, answers, {flat[i].topicId : i \in 1..k}, k),
             TopicResults(flat, answers, TopicIds(flat, k)))

calculateResults(w) ==
  ReportOf(w.state.flatQuestions, w.state.answers, Len(w.state.flatQuestions))

-----------------------------------------------------------------------------
(* The SCORM wrapper.  `throws` says that the API call made by the wrapper  *)
(* throws; a conforming LMS answers "true" to every call.                   *)

ApiResult == "true"

\* the values handed to the API: a string, a number or a formatted list
Text(t) == [str |-> t, num |-> Ratio(0, 1), list |-> <<>>]
Number(r) == [str |-> "", num |-> r, list |-> <<>>]
ListOf(l) == [str |-> "", num |-> Ratio(0, 1), list |-> l]

\* index of a key that has none
NoIndex == -1

\* one call on the API; in the key of an objective or an interaction the
\* index is written n and kept beside it
ApiCall(fn, key, index, value) == [fn |-> fn, key |-> key, index |-> index, value |-> value]

Called(w, c) == [w EXCEPT !.apiCalls = Append(@, c)]

\* getAPI() while API is null: findAPI(window) walks the parents again
Probed(w) == [w EXCEPT !.probes = @ + 1]

Returned(w, ret) == [w EXCEPT !.scormReturns = @ \cup {ret}]

Thrown(w) == [w EXCEPT !.threw = TRUE, !.raised = TRUE]

\* the end of a try block whose catch swallows the exception
Caught(w) == [w EXCEPT !.raised = FALSE]

\* SCORM.init(): standalone it returns true before any API call
SCORM_init(w) ==
  IF ~lmsApi THEN Returned(Probed(w), TRUE)
  ELSE Returned(Called(Probed(w), ApiCall("Initialize", "", NoIndex, Text(""))),
                ApiResult = "true")

\* SCORM.getValue('cmi.suspend_data'): the stored value, "" standalone
\* SCORM.getValue answering without an API as if the attempts were used up
SCORM_getValue_standaloneUsed(w, throws) ==
  LET w1 == Called(w, ApiCall("GetValue", "cmi.suspend_data", NoIndex, Text("")))
  IN IF ~lmsApi THEN [ret |-> <<TEST_DATA.maxAttempts>>, w |-> Probed(w)]
     ELSE IF throws THEN [ret |-> <<>>, w |-> Thrown(w1)]
     ELSE [ret |-> w.suspendData, w |-> w1]

SCORM_getValue(w, throws) ==
  LET w1 == Called(w, ApiCall("GetValue", "cmi.suspend_data", NoIndex, Text("")))
  IN IF ~lmsApi THEN [ret |-> <<>>, w |-> Probed(w)]
     ELSE IF throws THEN [ret |-> <<>>, w |-> Thrown(w1)]
     ELSE [ret |-> w.suspendData, w |-> w1]

\* api.SetValue(key, String(value)); of the LMS's data the model keeps cmi.suspend_data
ApiSetValue(w, key, index, value, throws) ==
  LET w1 == Called(w, ApiCall("SetValue", key, index, value))
  IN IF throws THEN Thrown(w1)
     ELSE Returned([w1 EXCEPT !.suspendData = IF key = "cmi.suspend_data" THEN value.list
                                               ELSE @],
                   ApiResult = "true")

\* SCORM.setValue returning false where it returns true without an API
SCORM_setValue_standaloneFalse(w, key, value, throws) ==
  IF ~lmsApi THEN Returned(w, FALSE)
  ELSE ApiSetValue(w, key, NoIndex, value, throws)

\* SCORM.setValue(key, value)
SCORM_setValue(w, key, value, throws) ==
  IF ~lmsApi THEN Returned(Probed(w), TRUE)
  ELSE ApiSetValue(w, key, NoIndex, value, throws)

SCORM_commit(w, throws) ==
  LET w1 == Called(w, ApiCall("Commit", "", NoIndex, Text("")))
  IN IF ~lmsApi THEN Returned(Probed(w), TRUE)
     ELSE IF throws THEN Thrown(w1)
     ELSE Returned(w1, ApiResult = "true")

SCORM_terminate(w) ==
  IF ~lmsApi THEN Returned(Probed(w), TRUE)
  ELSE Returned(Called(w, ApiCall("Terminate", "", NoIndex, Text(""))), ApiResult = "true")

\* one setValue of the finish sequence
Write(key, index, value) == [key |-> key, index |-> index, value |-> value]

\* this.setValue on the first k of `writes`, none of them on cmi.suspend_data:
\* one SetValue call each where there is an API, and true returned
SetValues(w, writes, k) ==
  IF k = 0 THEN w
  ELSE IF ~lmsApi THEN Returned([w EXCEPT !.probes = @ + k], TRUE)
  ELSE Returned([w EXCEPT !.apiCalls =
                   @ \o [i \in 1..k |-> ApiCall("SetValue", writes[i].key, writes[i].index,
                                                 writes[i].value)]],
                ApiResult = "true")

\* this.setScore, this.setCompletion, this.setSuccess and the two setValue calls
FinishKeys(earnedPoints, possiblePoints, passed) ==
  LET scaled == IF possiblePoints > 0 THEN Ratio(earnedPoints, possiblePoints)
                ELSE Ratio(0, 1)
  IN << Write("cmi.score.raw", NoIndex, Number(Ratio(earnedPoints, 1))),
        Write("cmi.score.min", NoIndex, Number(Ratio(0, 1))),
        Write("cmi.score.max", NoIndex, Number(Ratio(possiblePoints, 1))),
        Write("cmi.score.scaled", NoIndex, Number(scaled)),
        Write("cmi.completion_status", NoIndex, Text("completed")),
        Write("cmi.success_status", NoIndex, Text(IF passed THEN "passed" ELSE "failed")),
        Write("cmi.progress_measure", NoIndex, Text("1")),
        Write("cmi.exit", NoIndex, Text("normal")) >>

\* this.setObjective(i, obj.id, obj.score, obj.status)
setObjective(index, obj) ==
  << Write("cmi.objectives.n.id", index, Text(obj.id)),
     Write("cmi.objectives.n.score.raw", index, Number(Ratio(obj.score, 1))),
     Write("cmi.objectives.n.success_status", index, Text(obj.status)) >>

\* this.setInteraction(j, ...): the pattern is written unless it is '', the
\* description unless it is empty
setInteraction(index, int) ==
  << Write("cmi.interactions.n.id", index, Text(int.id)),
     Write("cmi.interactions.n.type", index, Text(int.type)),
     Write("cmi.interactions.n.result", index, int.result),
     Write("cmi.interactions.n.learner_response", index, ListOf(int.response)) >>
  \o (IF int.correct # <<>>
      THEN << Write("cmi.interactions.n.correct_responses.0.pattern", index,
                    ListOf(int.correct)) >>
      ELSE <<>>)
  \o (IF int.description # ""
      THEN << Write("cmi.interactions.n.description", index, Text(int.description)) >>
      ELSE <<>>)

RECURSIVE Flatten(_, _)
\* the writes of the first k of a list of write lists, one after the other
Flatten(lists, k) == IF k = 0 THEN <<>> ELSE Flatten(lists, k - 1) \o lists[k]

\* SCORM.finish terminating before it commits
SCORM_finish_terminateFirst(w, earnedPoints, possiblePoints, passed, objectives, interactions) ==
  LET writes ==
        FinishKeys(earnedPoints, possiblePoints, passed)
        \o Flatten([i \in 1..Len(objectives) |-> setObjective(i - 1, objectives[i])],
                   Len(objectives))
        \o Flatten([j \in 1..Len(interactions) |-> setInteraction(j - 1, interactions[j])],
                   Len(interactions))
  IN SCORM_commit(SCORM_terminate(SetValues(w, writes, Len(writes))), FALSE)

\* SCORM.finish: the setValue calls, then commit, then terminate
SCORM_finish(w, earnedPoints, possiblePoints, passed, objectives, interactions) ==
  LET writes ==
        FinishKeys(earnedPoints, possiblePoints, passed)
        \o Flatten([i \in 1..Len(objectives) |-> setObjective(i - 1, objectives[i])],
                   Len(objectives))
        \o Flatten([j \in 1..Len(interactions) |-> setInteraction(j - 1, interactions[j])],
                   Len(interactions))
  IN SCORM_terminate(SCORM_commit(SetValues(w, writes, Len(writes)), FALSE))

-----------------------------------------------------------------------------
(* The attempt counter in cmi.suspend_data: <<>> is "" or {}, <<n>> is       *)
(* {attemptsUsed: n}.                                                       *)

\* try { SCORM.getValue, JSON.parse } catch { return {} }
readSuspendObj(w) ==
  LET r == SCORM_getValue([w EXCEPT !.nread = @ + 1], w.faults.get[w.nread + 1])
  IN IF r.w.raised THEN [ret |-> <<>>, w |-> Caught(r.w)] ELSE r

\* writeSuspendObj without its try/catch
writeSuspendObj_noCatch(w, obj) ==
  LET w1 == SCORM_setValue(w, "cmi.suspend_data", ListOf(obj), w.faults.set)
  IN IF w1.raised THEN w1 ELSE SCORM_commit(w1, w.faults.commit)

\* try { SCORM.setValue, SCORM.commit } catch {}
writeSuspendObj(w, obj) ==
  LET w1 == SCORM_setValue(w, "cmi.suspend_data", ListOf(obj), w.faults.set)
  IN IF w1.raised THEN Caught(w1) ELSE Caught(SCORM_commit(w1, w.faults.commit))

\* getAttemptsUsed reading 0 whatever is stored
getAttemptsUsed_zero(w) ==
  [ret |-> 0, w |-> readSuspendObj(w).w]

getAttemptsUsed(w) ==
  LET r == readSuspendObj(w)
  IN [ret |-> IF r.ret # <<>> THEN r.ret[1] ELSE 0, w |-> r.w]

\* s = readSuspendObj(); s.attemptsUsed = n; writeSuspendObj(s)
setAttemptsUsed(w, n) ==
  LET r == readSuspendObj(w)
  IN writeSuspendObj(r.w, <<n>>)

hasAttemptsLeft(w) ==
  IF TEST_DATA.maxAttempts = 0 THEN [ret |-> TRUE, w |-> w]
  ELSE LET r == getAttemptsUsed(w)
       IN [ret |-> r.ret < TEST_DATA.maxAttempts, w |-> r.w]

\* registerAttemptStart without its setAttemptsUsed call
registerAttemptStart_noWrite(w) ==
  IF TEST_DATA.maxAttempts = 0 THEN [ret |-> TRUE, w |-> w]
  ELSE LET r == getAttemptsUsed(w)
       IN IF r.ret >= TEST_DATA.maxAttempts THEN [ret |-> FALSE, w |-> r.w]
          ELSE [ret |-> TRUE, w |-> r.w]

registerAttemptStart(w) ==
  IF TEST_DATA.maxAttempts = 0 THEN [ret |-> TRUE, w |-> w]
  ELSE LET r == getAttemptsUsed(w)
       IN IF r.ret >= TEST_DATA.maxAttempts THEN [ret |-> FALSE, w |-> r.w]
          ELSE LET w1 == setAttemptsUsed(r.w, r.ret + 1)
               IN [ret |-> TRUE, w |-> w1]

initTimer(w) ==
  IF TEST_DATA.timeLimitMinutes # 0 /\ TEST_DATA.timeLimitMinutes > 0
  THEN [w EXCEPT !.state.remainingSeconds = TEST_DATA.timeLimitMinutes * SecondsPerMinute,
                 !.state.timerInterval = "set"]
  ELSE w

\* if (state.timerInterval) { clearInterval(...); state.timerInterval = null; }
clearTimer(w) == [w EXCEPT !.state.timerInterval = "null"]

\* Math.round(x) for x >= 0
Round(x) == (2 * x.num + x.den) \div (2 * x.den)

\* x.toFixed(2)
ToFixed2(x) == Ratio(Round(Times(100, x)), 100)

\* the array written as stored, 0-based
OneBased_asStored(l) == l

\* to1 over an array
OneBased(l) == [i \in 1..Len(l) |-> l[i] + 1]

RECURSIVE SortedPairs(_)
\* the pairs of a left -> right object, by ascending left
SortedPairs(m) ==
  IF m = {} THEN <<>>
  ELSE LET p == CHOOSE x \in m : \A y \in m : x[1] <= y[1]
       IN <<p>> \o SortedPairs(m \ {p})

\* formatResponse(q, ans, true): the 1-based values that are joined with ','
\* ('l-r' for a matching pair); <<>> is the empty string
formatResponse(q, ans) ==
  IF ans.kind \in {"undefined", "null"} THEN <<>>
  ELSE IF q.type = "single" THEN <<ans.num + 1>>
  ELSE IF q.type \in {"multiple", "ranking"}
  THEN OneBased(IF ans.kind = "array" THEN ans.list ELSE <<>>)
  ELSE IF q.type = "matching"
  THEN LET pairs == SortedPairs(IF ans.kind = "object" THEN ans.map ELSE {})
       IN [i \in 1..Len(pairs) |-> <<pairs[i][1] + 1, pairs[i][2] + 1>>]
  ELSE <<>>

\* getCorrectAnswerFor(q), as an answer value
getCorrectAnswerFor(q) ==
  IF q.type = "single" THEN Num(q.correct.correctIndex)
  ELSE IF q.type = "multiple" THEN Arr(q.correct.correctIndices)
  ELSE IF q.type = "ranking" THEN Arr(q.correct.correctOrder)
  ELSE IF q.type = "matching"
  THEN Obj({p \in Entries(q.correct.pairs) :
              \A k \in 1..Len(q.correct.pairs) :
                q.correct.pairs[k][1] = p[1]
                  => \E j \in k..Len(q.correct.pairs) : q.correct.pairs[j] = p})
  ELSE Null

mapScormType(q) ==
  IF q.type = "single" THEN "choice"
  ELSE IF q.type = "multiple" THEN "multiple_choice"
  ELSE IF q.type = "matching" THEN "matching"
  ELSE IF q.type = "ranking" THEN "sequencing"
  ELSE "other"

\* the objectives finishScorm builds from results.topicResults
ObjectivesOf(results) ==
  [i \in 1..Len(results.topicResults) |->
     LET tr == results.topicResults[i] IN
     [id |-> "topic_" \o tr.topicId,
      score |-> Round(tr.percent),
      status |-> IF tr.passed = <<>> THEN "unknown"
                 ELSE IF tr.passed = <<TRUE>> THEN "passed" ELSE "failed"]]

\* the result of an interaction: correct, incorrect or the score to two decimals
ResultOf(scoreRatio) ==
  IF SameNumber(scoreRatio, Ratio(1, 1)) THEN Text("correct")
  ELSE IF SameNumber(scoreRatio, Ratio(0, 1)) THEN Text("incorrect")
  ELSE Number(ToFixed2(scoreRatio))

\* the interactions finishScorm builds from state.flatQuestions
InteractionsOf(w) ==
  [i \in 1..Len(w.state.flatQuestions) |->
     LET id == w.state.flatQuestions[i].question
         q == Bank[id]
         answer == w.state.answers[id]
     IN [id |-> "q_" \o id,
         type |-> mapScormType(q),
         result |-> ResultOf(checkAnswer(q, answer)),
         response |-> formatResponse(q, answer),
         correct |-> formatResponse(q, getCorrectAnswerFor(q)),
         description |-> q.prompt]]

\* the report goes to the LMS: one run of the finish sequence, with the
\* rounded percentage as the score out of 100
finishScorm(w, results) ==
  LET percentScore == Round(results.percent)
  IN SCORM_finish([w EXCEPT !.finishCalls = @ + 1], percentScore, 100, results.passed,
                  ObjectivesOf(results), InteractionsOf(w))

renderStartPage(w) ==
  LET r == getAttemptsUsed(w)
      used == r.ret
      hasLimit == TEST_DATA.maxAttempts # 0
      left == IF TEST_DATA.maxAttempts - used > 0 THEN TEST_DATA.maxAttempts - used ELSE 0
      noAttempts == hasLimit /\ left <= 0
  IN IF r.w.raised THEN r.w
     ELSE [r.w EXCEPT !.dom = [page |-> "start",
                               nav |-> IF noAttempts THEN "disabled" ELSE "startTest",
                               locked |-> FALSE, report |-> NoReport]]

\* the results page is drawn from `results`, then finishScorm(results) runs
ShowResults(w, results) ==
  finishScorm([w EXCEPT !.dom = [page |-> "results", nav |-> "restart", locked |-> FALSE,
                                 report |-> results]],
              results)

renderResults(w) == ShowResults(w, calculateResults(w))


\* the button choice without the showCorrectAnswers branch
NavButton_noConfirm(s) ==
  IF s.currentIndex < Len(s.flatQuestions) - 1 THEN "next" ELSE "submit"

\* the button under the question: Принять, Далее or Завершить тест
NavButton(s) ==
  IF TEST_DATA.showCorrectAnswers /\ ~s.feedbackShown THEN "confirmAnswer"
  ELSE IF s.currentIndex < Len(s.flatQuestions) - 1 THEN "next"
  ELSE "submit"

render(w) ==
  LET s == w.state IN
  IF s.phase = "start" THEN renderStartPage(w)
  ELSE IF s.currentIndex >= Len(s.flatQuestions) THEN renderResults(w)
  ELSE [w EXCEPT !.dom = [page |-> "question", nav |-> NavButton(s),
                          locked |-> TEST_DATA.showCorrectAnswers /\ s.feedbackShown,
                          report |-> NoReport]]


\* requireAnswerOrToast() testing only that an answer is stored (answer !== undefined)
requireAnswerOrToast_definedOnly(w) ==
  LET s == w.state IN
  IF s.currentIndex >= Len(s.flatQuestions) THEN TRUE
  ELSE s.answers[At(s.flatQuestions, s.currentIndex).question].kind # "undefined"

\* the value of requireAnswerOrToast(); its toast is shown by the caller below
requireAnswerOrToast(w) ==
  LET s == w.state IN
  IF s.currentIndex >= Len(s.flatQuestions) THEN TRUE
  ELSE LET id == At(s.flatQuestions, s.currentIndex).question IN
       hasAnswer(Bank[id], s.answers[id])

NeedAnswer(w) == showToast(w, "needAnswer")

updateNavigationButton(w) ==
  LET s == w.state IN
  [w EXCEPT !.dom.nav = IF s.currentIndex < Len(s.flatQuestions) - 1
                        THEN "next" ELSE "submit"]

lockAnswerOptions(w) == [w EXCEPT !.dom.locked = TRUE]

confirmAnswer(w) ==
  IF ~requireAnswerOrToast(w) THEN NeedAnswer(w)
  ELSE updateNavigationButton(
         lockAnswerOptions([w EXCEPT !.state.feedbackShown = TRUE]))


\* the early return testing the wrong flag
Locked_answerConfirmed(w) == TEST_DATA.showCorrectAnswers /\ w.state.answerConfirmed

\* the early return of every answer handler
Locked(w) == TEST_DATA.showCorrectAnswers /\ w.state.feedbackShown

Ignore(w) == [w EXCEPT !.ignored = TRUE]

\* selectSingle dropping the question's shuffle mapping
selectSingle_dropMapping(w, qId, idx) ==
  IF Locked(w) THEN Ignore(w)
  ELSE [w EXCEPT !.state.answers[qId] = Num(idx), !.state.shuffleMappings[qId] = NoMapping]

selectSingle(w, qId, idx) ==
  IF Locked(w) THEN Ignore(w)
  ELSE [w EXCEPT !.state.answers[qId] = Num(idx)]

toggleMultiple(w, qId, idx) ==
  IF Locked(w) THEN Ignore(w)
  ELSE LET a == w.state.answers[qId]
           current == IF a.kind = "array" THEN a.list ELSE <<>>
           pos == IndexOf(current, idx)
       IN [w EXCEPT !.state.answers[qId] =
             Arr(IF pos = -1 THEN Append(current, idx) ELSE Splice1(current, pos))]

\* displayRightVal is the select's value: <<>> for '' and <<d>> for the text of d
\* setMatchWithMapping storing the display position, as setMatch does
setMatchWithMapping_displaySpace(w, qId, originalLeftIdx, displayRightVal) ==
  IF Locked(w) THEN Ignore(w)
  ELSE LET a == w.state.answers[qId]
           pairs == IF Falsy(a) THEN {} ELSE a.map
       IN IF displayRightVal = <<>>
          THEN [w EXCEPT !.state.answers[qId] = Obj(Delete(pairs, originalLeftIdx))]
          ELSE [w EXCEPT !.state.answers[qId] =
                  Obj(Assign(pairs, originalLeftIdx, displayRightVal[1]))]

setMatchWithMapping(w, qId, originalLeftIdx, displayRightVal) ==
  IF Locked(w) THEN Ignore(w)
  ELSE LET mappingObj == w.state.shuffleMappings[qId]
           hasRight == mappingObj.kind = "object"
           a == w.state.answers[qId]
           pairs == IF Falsy(a) THEN {} ELSE a.map
       IN IF displayRightVal = <<>>
          THEN [w EXCEPT !.state.answers[qId] = Obj(Delete(pairs, originalLeftIdx))]
          ELSE LET displayRightIdx == displayRightVal[1] IN
               IF hasRight /\ displayRightIdx < Len(mappingObj.right)
               THEN [w EXCEPT !.state.answers[qId] =
                       Obj(Assign(pairs, originalLeftIdx,
                                  At(mappingObj.right, displayRightIdx)))]
               ELSE [w EXCEPT !.state.answers[qId] = Obj(pairs)]

moveRank(w, qId, pos, dir) ==
  IF Locked(w) THEN Ignore(w)
  ELSE IF ~\E i \in 1..Len(w.state.flatQuestions) :
             w.state.flatQuestions[i].question = qId
  THEN w
  ELSE LET a == w.state.answers[qId]
           order == IF a.kind = "array" THEN a.list ELSE Indices(Bank[qId].itemCount)
           newPos == pos + dir
       IN IF newPos < 0 \/ newPos >= Len(order) THEN w
          ELSE [w EXCEPT !.state.answers[qId] = Arr(Swap(order, pos, newPos))]


\* next() without its requireAnswerOrToast() line
next_noCheck(w) ==
  IF w.state.currentIndex < Len(w.state.flatQuestions) - 1
  THEN render([w EXCEPT !.state.currentIndex = @ + 1,
                        !.state.feedbackShown = FALSE])
  ELSE w

next(w) ==
  IF ~requireAnswerOrToast(w) THEN NeedAnswer(w)
  ELSE IF w.state.currentIndex < Len(w.state.flatQuestions) - 1
  THEN render([w EXCEPT !.state.currentIndex = @ + 1,
                        !.state.feedbackShown = FALSE])
  ELSE w


\* submit() without its last two statements: the index stays and nothing is rendered
submit_noRender(w) ==
  IF w.state.submitted THEN w
  ELSE IF ~requireAnswerOrToast(w) THEN NeedAnswer(w)
  ELSE clearTimer([w EXCEPT !.state.submitted = TRUE])

submit(w) ==
  IF w.state.submitted THEN w
  ELSE IF ~requireAnswerOrToast(w) THEN NeedAnswer(w)
  ELSE render(clearTimer([w EXCEPT !.state.submitted = TRUE,
                                   !.state.currentIndex = Len(w.state.flatQuestions)]))


\* updateTimer() without the clearInterval of its expiry branch
updateTimer_noClear(w) ==
  LET s == w.state IN
  IF s.submitted THEN clearTimer(w)
  ELSE IF s.remainingSeconds = NullSeconds \/ s.remainingSeconds <= 0 THEN clearTimer(w)
  ELSE LET w1 == [w EXCEPT !.state.remainingSeconds = @ - 1] IN
       IF w1.state.remainingSeconds <= 0 /\ ~w1.state.submitted
       THEN submit([w1 EXCEPT !.state.timeExpired = TRUE, !.timerSubmits = @ + 1])
       ELSE w1

updateTimer(w) ==
  LET s == w.state IN
  IF s.submitted THEN clearTimer(w)
  ELSE IF s.remainingSeconds = NullSeconds \/ s.remainingSeconds <= 0 THEN clearTimer(w)
  ELSE LET w1 == [w EXCEPT !.state.remainingSeconds = @ - 1] IN
       IF w1.state.remainingSeconds <= 0 /\ ~w1.state.submitted
       THEN submit([clearTimer([w1 EXCEPT !.state.timeExpired = TRUE])
                      EXCEPT !.timerSubmits = @ + 1])
       ELSE w1

\* a call that raised ends the handler where it stands
startTest(w) ==
  LET has == hasAttemptsLeft(w) IN
  IF has.w.raised THEN has.w
  ELSE IF ~has.ret THEN showToast(has.w, "noAttempts")
  ELSE LET reg == registerAttemptStart(has.w) IN
       IF reg.w.raised THEN reg.w
       ELSE IF ~reg.ret THEN showToast(reg.w, "noAttempts")
       ELSE render(initTimer([reg.w EXCEPT !.state.phase = "question"]))

\* restart() without its state.answers = {} line
restart_keepAnswers(w, g) ==
  LET w1 == [w EXCEPT !.state.phase = "start",
                      !.state.currentIndex = 0,
                      !.state.submitted = FALSE,
                      !.state.feedbackShown = FALSE,
                      !.state.timeExpired = FALSE,
                      !.state.timerInterval = "null",
                      !.state.remainingSeconds = NullSeconds,
                      !.state.answers = [id \in QIds |-> IF w.state.answers[id] # Undef
                                                         THEN w.state.answers[id]
                                                         ELSE g.answers[id]],
                      !.state.variant = g.variant,
                      !.state.flatQuestions = g.flatQuestions,
                      !.state.shuffleMappings = g.shuffleMappings,
                      !.finishCalls = 0,
                      !.timerSubmits = 0]
  IN render(w1)

\* restart(), with g the outcome of its generateVariant() call
restart(w, g) ==
  LET w1 == [w EXCEPT !.state.phase = "start",
                      !.state.currentIndex = 0,
                      !.state.submitted = FALSE,
                      !.state.feedbackShown = FALSE,
                      !.state.timeExpired = FALSE,
                      !.state.timerInterval = "null",
                      !.state.remainingSeconds = NullSeconds,
                      !.state.answers = g.answers,
                      !.state.variant = g.variant,
                      !.state.flatQuestions = g.flatQuestions,
                      !.state.shuffleMappings = g.shuffleMappings,
                      !.finishCalls = 0,
                      !.timerSubmits = 0]
  IN render(w1)

-----------------------------------------------------------------------------
(* The state machine *)

NoCall == [fn |-> "none", q |-> Question("none", 0, 0, 0, 0), answer |-> Undef,
           done |-> TRUE, result |-> FALSE]

\* cmi.suspend_data as earlier sessions of the same learner left it
PersistedCounters ==
  IF lmsApi /\ TEST_DATA.maxAttempts # 0
  THEN {<<>>} \cup {<<n>> : n \in 1..TEST_DATA.maxAttempts}
  ELSE {<<>>}

\* a handler ran and left the world w
Landed(w) ==
  /\ ignored' = w.ignored
  /\ state' = w.state
  /\ dom' = w.dom
  /\ toast' = w.toast
  /\ suspendData' = w.suspendData
  /\ finishCalls' = w.finishCalls
  /\ timerSubmits' = w.timerSubmits
  /\ threw' = (IF w.raised THEN "escaped" ELSE IF w.threw THEN "caught" ELSE "no")
  /\ scormReturns' = w.scormReturns
  /\ apiCalls' = w.apiCalls
  /\ apiProbes' = w.probes

Step(w) ==
  /\ Landed(w)
  /\ UNCHANGED <<TEST_DATA, lmsApi, call, faulty>>

\* the world window.onload leaves: SCORM.init(), generateVariant(), render()
Loaded(sd, g, f) ==
  render(SCORM_init(WorldOf([InitialState EXCEPT !.answers = g.answers,
                                                 !.variant = g.variant,
                                                 !.flatQuestions = g.flatQuestions,
                                                 !.shuffleMappings = g.shuffleMappings],
                            [page |-> "none", nav |-> "none", locked |-> FALSE, report |-> NoReport],
                            sd, 0, 0, f)))

\* the package of one of `tests` loaded in an LMS whose API may throw if
\* mayThrow, else in a conforming LMS or standalone
InitFor(tests, apis, mayThrow) ==
  /\ TEST_DATA \in tests
  /\ lmsApi \in apis
  /\ faulty = mayThrow
  /\ call = NoCall
  /\ \E sd \in PersistedCounters : \E g \in generateVariant(EmptyAnswers) :
       \E f \in FaultChoices(IF TEST_DATA.maxAttempts # 0 THEN 1 ELSE 0, FALSE) :
         LET w == Loaded(sd, g, f) IN
         /\ ignored = w.ignored
         /\ state = w.state
         /\ dom = w.dom
         /\ toast = w.toast
         /\ suspendData = w.suspendData
         /\ finishCalls = w.finishCalls
         /\ timerSubmits = w.timerSubmits
         /\ threw = (IF w.raised THEN "escaped" ELSE IF w.threw THEN "caught" ELSE "no")
         /\ scormReturns = w.scormReturns
         /\ apiCalls = w.apiCalls
         /\ apiProbes = w.probes

InitOf(apis, mayThrow) == InitFor(Tests, apis, mayThrow)

Init == InitOf(BOOLEAN, FALSE)

\* the question on screen
CurrentId == At(state.flatQuestions, state.currentIndex).question

StartTest ==
  /\ dom.page = "start" /\ dom.nav = "startTest"
  /\ \E f \in FaultChoices(IF TEST_DATA.maxAttempts # 0 THEN 3 ELSE 0,
                            TEST_DATA.maxAttempts # 0) :
       Step(startTest([World EXCEPT !.faults = f]))

\* the interval callback, while the interval is set
UpdateTimer ==
  /\ state.timerInterval = "set"
  /\ Step(updateTimer(World))

SelectSingle ==
  /\ dom.page = "question" /\ Bank[CurrentId].type = "single"
  /\ \E idx \in 0..(Bank[CurrentId].optCount - 1) :
       Step(selectSingle(World, CurrentId, idx))

ToggleMultiple ==
  /\ dom.page = "question" /\ Bank[CurrentId].type = "multiple"
  /\ \E idx \in 0..(Bank[CurrentId].optCount - 1) :
       Step(toggleMultiple(World, CurrentId, idx))

SetMatchWithMapping ==
  /\ dom.page = "question" /\ Bank[CurrentId].type = "matching"
  /\ \E l \in 0..(Bank[CurrentId].leftCount - 1) :
       \E v \in {<<>>} \cup {<<d>> : d \in 0..(Bank[CurrentId].rightCount - 1)} :
         Step(setMatchWithMapping(World, CurrentId, l, v))

MoveRank ==
  /\ dom.page = "question" /\ Bank[CurrentId].type = "ranking"
  /\ \E pos \in 0..(Bank[CurrentId].itemCount - 1) : \E dir \in {-1, 1} :
       Step(moveRank(World, CurrentId, pos, dir))

ConfirmAnswer ==
  /\ dom.page = "question" /\ dom.nav = "confirmAnswer"
  /\ Step(confirmAnswer(World))

NextClick ==
  /\ dom.page = "question" /\ dom.nav = "next"
  /\ Step(next(World))

Submit ==
  /\ dom.page = "question" /\ dom.nav = "submit"
  /\ Step(submit(World))

Restart ==
  /\ dom.page = "results" /\ dom.nav = "restart"
  /\ \E g \in generateVariant(EmptyAnswers) :
       \E f \in FaultChoices(IF TEST_DATA.maxAttempts # 0 THEN 1 ELSE 0, FALSE) :
         Step(restart([World EXCEPT !.faults = f], g))

Next ==
  \/ StartTest
  \/ UpdateTimer
  \/ SelectSingle
  \/ ToggleMultiple
  \/ SetMatchWithMapping
  \/ MoveRank
  \/ ConfirmAnswer
  \/ NextClick
  \/ Submit
  \/ Restart

Spec == Init /\ [][Next]_vars

\* the same package in an LMS whose API may throw while the attempt counter is
\* read or written
InitThrowing == InitOf({TRUE}, TRUE)

SpecThrowing == InitThrowing /\ [][Next]_vars

\* the package of a test with pass rules, in a conforming LMS, without time
\* limit, attempt limit and answer feedback
InitReport == InitFor(RuledTests, {TRUE}, FALSE)

NextReport ==
  \/ StartTest
  \/ SelectSingle
  \/ ToggleMultiple
  \/ SetMatchWithMapping
  \/ MoveRank
  \/ NextClick
  \/ Submit
  \/ Restart

SpecReport == InitReport /\ [][NextReport]_vars


-----------------------------------------------------------------------------
(* Single calls of hasAnswer *)

\* the questions hasAnswer is called on
Shapes ==
  {Question("single", 2, 0, 0, 0), Question("multiple", 2, 0, 0, 0),
   Question("ranking", 0, 0, 0, 2)}
  \cup {Question("matching", 0, l, r, 0) : l \in 0..MaxLeft, r \in 0..MaxRight}

\* the objects setMatchWithMapping can build: each left index has at most one right index
PairMaps(nLeft, nRight) ==
  {m \in SUBSET ((0..(nLeft - 1)) \X (0..(nRight - 1))) :
     \A p \in m : \A r \in m : p[1] = r[1] => p = r}

\* the answers hasAnswer is called with: for a matching question none or an object
\* built by setMatchWithMapping, for the other types a value of any kind
AnswersOf(q) ==
  IF q.type = "matching"
  THEN {Undef} \cup {Obj(m) : m \in PairMaps(q.leftCount, q.rightCount)}
  ELSE {Undef} \cup {Num(n) : n \in 0..1}
       \cup {Arr(a) : a \in {<<>>, <<0>>, <<1>>, <<0, 1>>, <<1, 0>>}}
       \cup {Obj(m) : m \in {{}, {<<0, 0>>}}}

InitHasAnswer ==
  /\ TEST_DATA = [sections |-> << Section("t0", <<>>, 0) >>, showCorrectAnswers |-> FALSE,
                  timeLimitMinutes |-> 0, maxAttempts |-> 0,
                  overallPassRule |-> Rule("percent", 50)]
  /\ lmsApi = FALSE
  /\ suspendData = <<>>
  /\ state = InitialState
  /\ dom = [page |-> "start", nav |-> "startTest", locked |-> FALSE, report |-> NoReport]
  /\ toast = "none"
  /\ finishCalls = 0
  /\ timerSubmits = 0
  /\ ignored = FALSE
  /\ faulty = FALSE
  /\ threw = "no"
  /\ scormReturns = {}
  /\ apiCalls = <<>>
  /\ apiProbes = 0
  /\ \E q \in Shapes : \E a \in AnswersOf(q) :
       call = [fn |-> "hasAnswer", q |-> q, answer |-> a, done |-> FALSE, result |-> FALSE]

EvalHasAnswer ==
  /\ ~call.done
  /\ call' = [call EXCEPT !.done = TRUE, !.result = hasAnswer(call.q, call.answer)]
  /\ UNCHANGED <<TEST_DATA, lmsApi, suspendData, state, dom, toast, finishCalls,
                 timerSubmits, ignored, faulty, threw, scormReturns, apiCalls,
                 apiProbes>>

NextHasAnswer == EvalHasAnswer

SpecHasAnswer == InitHasAnswer /\ [][NextHasAnswer]_vars

-----------------------------------------------------------------------------
(* Single calls of checkAnswer *)

\* the lists over 0..(n - 1) of length at most n
Lists(n) == UNION {[1..k -> 0..(n - 1)] : k \in 0..n}

\* those without a repeated entry
DistinctLists(n) == {l \in Lists(n) : \A i \in 1..Len(l) : \A j \in 1..Len(l) : l[i] = l[j] => i = j}

\* the increasing ones: the correct indices of a multiple question
IndexSets(n) == {l \in Lists(n) : \A i \in 1..Len(l) : \A j \in 1..Len(l) : i < j => l[i] < l[j]}

\* correct.pairs: one pair per left item 0..(k - 1), in order
PairLists(nLeft, nRight) ==
  UNION {{[i \in 1..k |-> <<i - 1, f[i]>>] : f \in [1..k -> 0..(nRight - 1)]} : k \in 0..nLeft}

ScoredQuestion(t, c) == [type |-> t, correct |-> c]

\* the questions checkAnswer is called on
ScoredQuestions ==
  {ScoredQuestion("single", Correct(i, <<>>, <<>>, <<>>)) : i \in 0..(MaxOptions - 1)}
  \cup {ScoredQuestion("multiple", Correct(0, l, <<>>, <<>>)) : l \in IndexSets(MaxOptions)}
  \cup {ScoredQuestion("matching", Correct(0, <<>>, ps, <<>>)) : ps \in PairLists(MaxLeft, MaxRight)}
  \cup {ScoredQuestion("ranking", Correct(0, <<>>, <<>>, l)) : l \in DistinctLists(MaxOptions)}

\* the well-typed answers of a question, and no answer at all
ScoredAnswers(q) ==
  {Undef, Null} \cup
  (IF q.type = "single" THEN {Num(i) : i \in 0..(MaxOptions - 1)}
   ELSE IF q.type = "multiple" THEN {Arr(l) : l \in DistinctLists(MaxOptions)}
   ELSE IF q.type = "matching" THEN {Obj(m) : m \in PairMaps(MaxLeft, MaxRight)}
   ELSE {Arr(l) : l \in Lists(MaxOptions)})

InitCheckAnswer ==
  /\ TEST_DATA = [sections |-> << Section("t0", <<>>, 0) >>, showCorrectAnswers |-> FALSE,
                  timeLimitMinutes |-> 0, maxAttempts |-> 0,
                  overallPassRule |-> Rule("percent", 50)]
  /\ lmsApi = FALSE
  /\ suspendData = <<>>
  /\ state = InitialState
  /\ dom = [page |-> "start", nav |-> "startTest", locked |-> FALSE, report |-> NoReport]
  /\ toast = "none"
  /\ finishCalls = 0
  /\ timerSubmits = 0
  /\ ignored = FALSE
  /\ faulty = FALSE
  /\ threw = "no"
  /\ scormReturns = {}
  /\ apiCalls = <<>>
  /\ apiProbes = 0
  /\ \E q \in ScoredQuestions : \E a \in ScoredAnswers(q) :
       call = [fn |-> "checkAnswer", q |-> q, answer |-> a, done |-> FALSE,
               result |-> Ratio(0, 1)]

EvalCheckAnswer ==
  /\ ~call.done
  /\ call' = [call EXCEPT !.done = TRUE, !.result = checkAnswer(call.q, call.answer)]
  /\ UNCHANGED <<TEST_DATA, lmsApi, suspendData, state, dom, toast, finishCalls,
                 timerSubmits, ignored, faulty, threw, scormReturns, apiCalls,
                 apiProbes>>

NextCheckAnswer == EvalCheckAnswer

SpecCheckAnswer == InitCheckAnswer /\ [][NextCheckAnswer]_vars

\* a call of checkAnswer on a question of type t has returned
Scored(t) == call.fn = "checkAnswer" /\ call.done /\ call.q.type = t

-----------------------------------------------------------------------------
(* Single calls of checkPassRuleWithPartial *)

\* a test without questions
NoTest ==
  [sections |-> << Section("t0", <<>>, 0) >>, showCorrectAnswers |-> FALSE,
   timeLimitMinutes |-> 0, maxAttempts |-> 0, overallPassRule |-> Rule("percent", 50)]

\* the package of `test` before window.onload has run, outside any LMS
Unloaded(test) ==
  /\ TEST_DATA = test
  /\ lmsApi = FALSE
  /\ suspendData = <<>>
  /\ state = InitialState
  /\ dom = [page |-> "start", nav |-> "startTest", locked |-> FALSE, report |-> NoReport]
  /\ toast = "none"
  /\ finishCalls = 0
  /\ timerSubmits = 0
  /\ ignored = FALSE
  /\ faulty = FALSE
  /\ threw = "no"
  /\ scormReturns = {}
  /\ apiCalls = <<>>
  /\ apiProbes = 0

\* a pure function touches none of the package's state
Untouched ==
  UNCHANGED <<TEST_DATA, lmsApi, suspendData, state, dom, toast, finishCalls,
              timerSubmits, ignored, faulty, threw, scormReturns, apiCalls,
                 apiProbes>>

\* the pass rules of a test or of a section
Rules == {NoRule} \cup {Rule(t, v) : t \in {"percent", "absolute"}, v \in 0..MaxRuleValue}

\* the percentages n / d, up to one above the largest rule value
Percents == UNION {{Ratio(n, d) : n \in 0..((MaxRuleValue + 1) * d)} : d \in 1..MaxPossible}

InitPassRule ==
  /\ Unloaded(NoTest)
  /\ \E rule \in Rules : \E percent \in Percents : \E n \in 0..(MaxRuleValue + 1) :
       call = [fn |-> "checkPassRuleWithPartial", rule |-> rule, percent |-> percent,
               fullyCorrectCount |-> n, done |-> FALSE, result |-> FALSE]

EvalPassRule ==
  /\ ~call.done
  /\ call' = [call EXCEPT !.done = TRUE,
                          !.result = checkPassRuleWithPartial(call.rule, call.percent,
                                                              call.fullyCorrectCount)]
  /\ Untouched

NextPassRule == EvalPassRule

SpecPassRule == InitPassRule /\ [][NextPassRule]_vars

-----------------------------------------------------------------------------
(* Single calls of generateVariant *)

\* section lists with draw counts below, at and above the size of the pool
DrawnSectionLists ==
  { << Section("t1", <<"q1", "q2", "q3">>, n), Section("t2", <<"q4">>, m) >> :
      n \in 0..MaxDraw, m \in 0..(MaxDraw - 2) }

DrawnTests ==
  [sections : DrawnSectionLists,
   showCorrectAnswers : {FALSE},
   timeLimitMinutes : {0},
   maxAttempts : {0},
   overallPassRule : {Rule("percent", 50)}]

InitVariant ==
  /\ \E test \in DrawnTests : Unloaded(test)
  /\ call = NoCall

\* generateVariant() on the state literal, as window.onload calls it
GenerateVariant ==
  /\ state.variant = <<>>
  /\ \E g \in generateVariant(state.answers) :
       state' = [state EXCEPT !.answers = g.answers,
                              !.variant = g.variant,
                              !.flatQuestions = g.flatQuestions,
                              !.shuffleMappings = g.shuffleMappings]
  /\ UNCHANGED <<TEST_DATA, lmsApi, suspendData, dom, toast, finishCalls, timerSubmits,
                 ignored, call, faulty, threw, scormReturns, apiCalls,
                 apiProbes>>

NextVariant == GenerateVariant

SpecVariant == InitVariant /\ [][NextVariant]_vars

-----------------------------------------------------------------------------
(* A matching question on screen: the rows are the left items in display     *)
(* order, each with a select over the right items in display order.  The    *)
(* package's select calls setMatchWithMapping(q.id, originalLeftIdx,        *)
(* this.value); the learner page's calls updatePair(displayLeftIdx, val).   *)

MatchId == "q3"

\* the matching questions shown: at least one item on each side
MatchingShapes ==
  {Question("matching", 0, l, r, 0) : l \in 1..MaxLeft, r \in 1..MaxRight}

InitMatching ==
  /\ Unloaded(NoTest)
  /\ \E q \in MatchingShapes : \E m \in MappingChoices(q) : \E page \in {"package", "take-test"} :
       /\ call = [fn |-> "match", page |-> page, q |-> q, mapping |-> m,
                  pairs |-> {}, row |-> 0, val |-> <<>>, done |-> FALSE]

\* the world of the package with the question's mapping and the stored pairs
MatchingWorld ==
  [World EXCEPT !.state.shuffleMappings[MatchId] = call.mapping,
                !.state.answers[MatchId] = IF call.done THEN Obj(call.pairs) ELSE Undef]

\* the learner picks an option, or the placeholder, in the select of a row
\* of the package's page
ChooseInPackage ==
  /\ call.page = "package"
  /\ \E row \in 0..(call.q.leftCount - 1) :
       \E val \in {<<>>} \cup {<<d>> : d \in 0..(call.q.rightCount - 1)} :
         LET originalLeftIdx == At(call.mapping.left, row)
             w == setMatchWithMapping(MatchingWorld, MatchId, originalLeftIdx, val)
         IN call' = [call EXCEPT !.pairs = w.state.answers[MatchId].map,
                                 !.row = row, !.val = val, !.done = TRUE]
  /\ Untouched

\* updatePair(displayLeftIdx, displayRightIdx) of the learner page
updatePair(pairs, leftMapping, rightMapping, displayLeftIdx, displayRightIdx) ==
  Assign(pairs, At(leftMapping, displayLeftIdx), At(rightMapping, displayRightIdx))

\* the learner picks an option in the select of a row of the learner page
ChooseInTakeTest ==
  /\ call.page = "take-test"
  /\ \E row \in 0..(call.q.leftCount - 1) : \E d \in 0..(call.q.rightCount - 1) :
       call' = [call EXCEPT !.pairs = updatePair(call.pairs, call.mapping.left,
                                                 call.mapping.right, row, d),
                            !.row = row, !.val = <<d>>, !.done = TRUE]
  /\ Untouched

NextMatching == ChooseInPackage \/ ChooseInTakeTest

SpecMatching == InitMatching /\ [][NextMatching]_vars

-----------------------------------------------------------------------------
(* The learner page, take-test.tsx.  `call` holds the component's state: the *)
(* questions by position, their shuffle mappings, the answers, currentIndex, *)
(* whether the finish request was sent, and per question the setTimeout      *)
(* callbacks of the ranking input that are scheduled and have not run.       *)

\* the question lists of the attempts taken
TakenQuestions ==
  { << Question("single", 2, 0, 0, 0), Question("multiple", 2, 0, 0, 0) >>,
    << Question("matching", 0, 2, 2, 0), Question("single", 2, 0, 0, 0) >>,
    << Question("ranking", 0, 0, 0, 3), Question("multiple", 2, 0, 0, 0) >>,
    << Question("single", 2, 0, 0, 0), Question("ranking", 0, 0, 0, 2) >> }

\* mappings[question.id] of startAttempt: none when shuffleAnswers is false
TakenMappings(q) == MappingChoices(q) \cup {NoMapping}

\* initialOrder = shuffleMapping || items.map((_, i) => i)
initialOrder(q, shuffleMapping) ==
  IF shuffleMapping = NoMapping THEN Indices(q.itemCount) ELSE shuffleMapping.arr

\* the render of QuestionInput for the current question: a ranking input without
\* an answer and with a mapping schedules setTimeout(() => onAnswer(initialOrder), 0)
RenderInput(p) ==
  LET pos == p.currentIndex + 1 IN
  IF /\ p.flatQuestions[pos].type = "ranking"
     /\ p.answers[pos] = Undef
     /\ p.shuffleMappings[pos] # NoMapping
  THEN [p EXCEPT !.pending[pos] = @ + 1]
  ELSE p

\* handleAnswer(currentQ.question.id, answer), then the render
handleAnswer(p, answer) == RenderInput([p EXCEPT !.answers[p.currentIndex + 1] = answer])

\* the page after startAttempt has stored the questions and the mappings
InitTakeTest ==
  /\ Unloaded(NoTest)
  /\ \E qs \in TakenQuestions :
       \E ms \in [1..Len(qs) -> UNION {TakenMappings(qs[i]) : i \in 1..Len(qs)}] :
         /\ \A i \in 1..Len(qs) : ms[i] \in TakenMappings(qs[i])
         /\ call = RenderInput([fn |-> "take-test", flatQuestions |-> qs, shuffleMappings |-> ms,
                                answers |-> [i \in 1..Len(qs) |-> Undef], currentIndex |-> 0,
                                submitted |-> FALSE, pending |-> [i \in 1..Len(qs) |-> 0]])

\* the question QuestionInput shows and its answer
TakenQuestion == call.flatQuestions[call.currentIndex + 1]
TakenAnswer == call.answers[call.currentIndex + 1]

\* a handler ran and React rendered page p; no more than MaxPending callbacks
\* wait for a question
Rendered(p) ==
  /\ \A i \in 1..Len(p.pending) : p.pending[i] <= MaxPending
  /\ call' = p
  /\ Untouched

\* onClick={() => onAnswer(originalIndex)} of a single question
TakeSingle ==
  /\ call.fn = "take-test" /\ ~call.submitted /\ TakenQuestion.type = "single"
  /\ \E originalIndex \in 0..(TakenQuestion.optCount - 1) :
       Rendered(handleAnswer(call, Num(originalIndex)))

\* toggle(originalIdx) of a multiple question
toggle(selected, originalIdx) ==
  IF IndexOf(selected, originalIdx) # -1
  THEN SelectSeq(selected, LAMBDA i : i # originalIdx)
  ELSE Append(selected, originalIdx)

TakeMultiple ==
  /\ call.fn = "take-test" /\ ~call.submitted /\ TakenQuestion.type = "multiple"
  /\ \E originalIdx \in 0..(TakenQuestion.optCount - 1) :
       Rendered(handleAnswer(call, Arr(toggle(IF TakenAnswer = Undef THEN <<>>
                                                ELSE TakenAnswer.list, originalIdx))))

\* updatePair(displayLeftIdx, Number(val)) of a matching question
TakeMatching ==
  /\ call.fn = "take-test" /\ ~call.submitted /\ TakenQuestion.type = "matching"
  /\ \E row \in 0..(TakenQuestion.leftCount - 1) : \E d \in 0..(TakenQuestion.rightCount - 1) :
       LET m == call.shuffleMappings[call.currentIndex + 1]
           leftMapping == IF m = NoMapping THEN Indices(TakenQuestion.leftCount) ELSE m.left
           rightMapping == IF m = NoMapping THEN Indices(TakenQuestion.rightCount) ELSE m.right
           pairs == IF TakenAnswer = Undef THEN {} ELSE TakenAnswer.map
       IN Rendered(handleAnswer(call, Obj(updatePair(pairs, leftMapping, rightMapping, row, d))))

\* moveItem(fromIdx, toIdx): the item is cut out and put in again
moveItem(order, fromIdx, toIdx) ==
  LET item == At(order, fromIdx)
      cut == Splice1(order, fromIdx)
  IN SubSeq(cut, 1, toIdx) \o <<item>> \o SubSeq(cut, toIdx + 1, Len(cut))

\* the enabled move buttons of a ranking question
TakeRanking ==
  /\ call.fn = "take-test" /\ ~call.submitted /\ TakenQuestion.type = "ranking"
  /\ LET order == IF TakenAnswer # Undef THEN TakenAnswer.list
                  ELSE initialOrder(TakenQuestion, call.shuffleMappings[call.currentIndex + 1])
     IN \E i \in 0..(Len(order) - 1) : \E toIdx \in {i - 1, i + 1} :
          /\ toIdx >= 0 /\ toIdx <= Len(order) - 1
          /\ Rendered(handleAnswer(call, Arr(moveItem(order, i, toIdx))))

\* a scheduled callback of a ranking input runs: onAnswer(initialOrder) of the
\* question it was rendered for
RankingTimeout ==
  /\ call.fn = "take-test" /\ ~call.submitted
  /\ \E pos \in 1..Len(call.flatQuestions) :
       /\ call.pending[pos] > 0
       /\ Rendered(RenderInput(
            [call EXCEPT !.pending[pos] = @ - 1,
                         !.answers[pos] = Arr(initialOrder(call.flatQuestions[pos],
                                                           call.shuffleMappings[pos]))]))

\* the checks of handleNext on the current answer
NextAllowed(q, currentAnswer) ==
  /\ currentAnswer # Undef
  /\ ~(q.type = "multiple" /\ currentAnswer.kind = "array" /\ currentAnswer.list = <<>>)
  /\ q.type = "matching" =>
       \A i \in 0..(q.leftCount - 1) : Lookup(currentAnswer.map, i) # <<>>

\* handleNext, behind the Next button
handleNext(p) ==
  IF ~NextAllowed(p.flatQuestions[p.currentIndex + 1], p.answers[p.currentIndex + 1]) THEN p
  ELSE RenderInput([p EXCEPT !.currentIndex =
                      IF @ + 1 < Len(p.flatQuestions) - 1 THEN @ + 1
                      ELSE Len(p.flatQuestions) - 1])

TakeNext ==
  /\ call.fn = "take-test" /\ ~call.submitted
  /\ call.currentIndex < Len(call.flatQuestions) - 1
  /\ Rendered(handleNext(call))

\* the Previous button
TakePrevious ==
  /\ call.fn = "take-test" /\ ~call.submitted
  /\ call.currentIndex # 0
  /\ Rendered(RenderInput([call EXCEPT !.currentIndex = IF @ - 1 > 0 THEN @ - 1 ELSE 0]))

\* the numbered buttons: setCurrentIndex(i)
TakeJump ==
  /\ call.fn = "take-test" /\ ~call.submitted
  /\ \E i \in 0..(Len(call.flatQuestions) - 1) :
       Rendered(RenderInput([call EXCEPT !.currentIndex = i]))

\* handleSubmit: the request is sent unless an answer is undefined or null
handleSubmit(p) ==
  IF \E i \in 1..Len(p.flatQuestions) : p.answers[i] = Undef THEN p
  ELSE [p EXCEPT !.submitted = TRUE]

TakeSubmit ==
  /\ call.fn = "take-test" /\ ~call.submitted
  /\ call.currentIndex = Len(call.flatQuestions) - 1
  /\ Rendered(handleSubmit(call))

NextTakeTest ==
  \/ TakeSingle
  \/ TakeMultiple
  \/ TakeMatching
  \/ TakeRanking
  \/ RankingTimeout
  \/ TakeNext
  \/ TakePrevious
  \/ TakeJump
  \/ TakeSubmit

SpecTakeTest == InitTakeTest /\ [][NextTakeTest]_vars

-----------------------------------------------------------------------------
(* Properties *)

\* the question on screen has no present answer
CurrentUnanswered ==
  /\ state.currentIndex < Len(state.flatQuestions)
  /\ ~hasAnswer(Bank[CurrentId], state.answers[CurrentId])

\* the question at 0-based position i of the flat list has a present answer
AnsweredAt(s, i) ==
  hasAnswer(Bank[At(s.flatQuestions, i).question],
            s.answers[At(s.flatQuestions, i).question])

\* C1: when the countdown reaches zero in the question phase, the attempt is
\* submitted, the results are shown and timeExpired is set, whether or not the
\* question on screen has a present answer.
C1_ExpirySubmits ==
  (state.phase = "question" /\ state.remainingSeconds = 0)
    => (state.submitted /\ state.timeExpired /\ dom.page = "results")

\* C2: within one attempt, for every test definition and every interleaving of
\* timer ticks and user actions, finishScorm runs at most once.
C2_FinishAtMostOnce == finishCalls <= 1

\* C3: once submitted is true the results screen has replaced the answer controls
\* and the timer is stopped, and no step other than restart
\* (the one step back to the start page) changes the answers map, clears the latch
\* or runs the finish sequence again.
C3_SubmittedLatch ==
  /\ [](state.submitted => (dom.page = "results" /\ state.timerInterval = "null"))
  /\ [][(state.submitted /\ state'.phase # "start")
          => /\ state'.answers = state.answers
             /\ state'.submitted
             /\ finishCalls' = finishCalls]_vars

C3_Witness ==
  /\ state.submitted
  /\ dom.page = "results"
  /\ \E id \in QIds : state.answers[id].kind = "number"

\* C4: whenever the results screen is shown (phase past start and currentIndex at or
\* beyond the number of flat questions) or submitted is true, no timer is active.
C4_NoTimerOnResults ==
  ((state.phase # "start" /\ state.currentIndex >= Len(state.flatQuestions))
     \/ state.submitted)
    => state.timerInterval = "null"

\* C5: with a limit of m minutes a successful start sets remainingSeconds to 60*m;
\* every tick lowers it by exactly 1; it is never negative; at 0 the timer is
\* cleared; the timer calls submit at most once per attempt.
C5_Countdown ==
  /\ [](state.remainingSeconds = NullSeconds \/ state.remainingSeconds >= 0)
  /\ [](state.remainingSeconds = 0 => state.timerInterval = "null")
  /\ [](timerSubmits <= 1)
  /\ [][(state'.phase = "question" /\ TEST_DATA.timeLimitMinutes > 0 /\ StartTest)
          => state'.remainingSeconds = SecondsPerMinute * TEST_DATA.timeLimitMinutes]_vars
  /\ [][UpdateTimer => state'.remainingSeconds = state.remainingSeconds - 1]_vars

C5_Witness ==
  /\ state.remainingSeconds = 0
  /\ state.timerInterval = "null"
  /\ timerSubmits = 1

\* C6: next() on a question without a present answer is refused: currentIndex,
\* answers, feedbackShown, submitted and the timer state stay as they are.
C6_NextRefused ==
  [][(CurrentUnanswered /\ NextClick)
       => /\ state'.currentIndex = state.currentIndex
          /\ state'.answers = state.answers
          /\ state'.feedbackShown = state.feedbackShown
          /\ state'.submitted = state.submitted
          /\ state'.timerInterval = state.timerInterval
          /\ state'.remainingSeconds = state.remainingSeconds
          /\ state'.timeExpired = state.timeExpired
          /\ dom' = dom]_vars

C6_Witness ==
  /\ toast = "needAnswer"
  /\ dom.page = "question" /\ dom.nav = "next"
  /\ CurrentUnanswered

\* the right-hand side of C7: the answer-presence rule as the specification words it
PresenceRule(q, answer) ==
  IF q.type = "single" THEN answer.kind = "number"
  ELSE IF q.type = "multiple" THEN answer.kind = "array" /\ Len(answer.list) > 0
  ELSE IF q.type = "matching"
  THEN \A l \in 0..(q.leftCount - 1) : \E p \in answer.map : p[1] = l
  ELSE TRUE

\* C7: hasAnswer(q, answer) is true exactly when the answer is a number (single), a
\* non-empty list (multiple), assigns a right index to every left item (matching);
\* always for ranking.
C7_HasAnswerRule ==
  (call.fn = "hasAnswer" /\ call.done)
    => (call.result <=> PresenceRule(call.q, call.answer))

\* hasAnswer agrees with the rule on every question that has a left item
HasAnswerRuleWithLeftItems ==
  (call.fn = "hasAnswer" /\ call.done /\ (call.q.type = "matching" => call.q.leftCount > 0))
    => (call.result <=> PresenceRule(call.q, call.answer))

\* C8: while a question is on screen every question below currentIndex has a
\* present answer, and an accepted manual submit leaves every question of the flat
\* list answered.
C8_AnsweredBelowIndex ==
  /\ []((state.phase = "question" /\ state.currentIndex < Len(state.flatQuestions))
          => \A i \in 0..(state.currentIndex - 1) : AnsweredAt(state, i))
  /\ [][(~state.submitted /\ state'.submitted /\ Submit)
          => \A i \in 0..(Len(state'.flatQuestions) - 1) : AnsweredAt(state', i)]_vars

C8_Witness ==
  /\ state.submitted /\ ~state.timeExpired
  /\ Len(state.flatQuestions) = 2
  /\ dom.page = "results"

\* C9: with showCorrectAnswers, next and manual submit run only on a confirmed
\* question; confirmAnswer on a question without a present answer is refused; on
\* arrival at the following question feedbackShown is false.
C9_ConfirmBeforeAdvance ==
  /\ [][(TEST_DATA.showCorrectAnswers /\ ~state.feedbackShown)
          => ~(NextClick \/ Submit)]_vars
  /\ [][(CurrentUnanswered /\ ConfirmAnswer)
          => (state' = state /\ dom' = dom)]_vars
  /\ [][(/\ TEST_DATA.showCorrectAnswers
         /\ state'.currentIndex = state.currentIndex + 1
         /\ state'.currentIndex < Len(state'.flatQuestions))
          => ~state'.feedbackShown]_vars

C9_Witness ==
  /\ TEST_DATA.showCorrectAnswers
  /\ dom.page = "question"
  /\ state.currentIndex = 1
  /\ ~state.feedbackShown
  /\ dom.nav = "confirmAnswer"

\* C10: with showCorrectAnswers and the question on screen confirmed, selectSingle,
\* toggleMultiple, setMatchWithMapping and moveRank leave the answers map as it is.
C10_LockedAnswers ==
  [][(/\ TEST_DATA.showCorrectAnswers /\ state.feedbackShown
      /\ (SelectSingle \/ ToggleMultiple \/ SetMatchWithMapping \/ MoveRank))
       => state'.answers = state.answers]_vars

C10_Witness ==
  /\ ignored
  /\ TEST_DATA.showCorrectAnswers /\ state.feedbackShown
  /\ dom.page = "question"

\* attemptsUsed as the LMS holds it
StoredCounter == IF suspendData # <<>> THEN suspendData[1] ELSE 0

\* a successful start: the step from the start page into the question phase
StartedAttempt == state.phase = "start" /\ state'.phase = "question"

\* the countdown runs after the step exactly when a positive limit is configured
TimerAsConfigured ==
  (state'.timerInterval = "set") <=> (TEST_DATA.timeLimitMinutes > 0)

\* C11: with maxAttempts configured and the persisted counter at or above it, a
\* startTest call that reads the counter is refused: phase stays 'start', the
\* counter is not written and no timer is started.
C11_ExhaustedRefused ==
  [][(/\ TEST_DATA.maxAttempts # 0
      /\ StoredCounter >= TEST_DATA.maxAttempts
      /\ threw' = "no"
      /\ StartTest)
       => /\ state' = state
          /\ suspendData' = suspendData
          /\ state'.timerInterval = "null"
          /\ toast' = "noAttempts"]_vars

C11_Witness ==
  /\ toast = "noAttempts"
  /\ threw = "no"
  /\ state.phase = "start"
  /\ TEST_DATA.maxAttempts # 0
  /\ StoredCounter >= TEST_DATA.maxAttempts

\* C12: with maxAttempts configured and a channel that returns what was written,
\* the persisted counter never exceeds maxAttempts, never goes down, and every
\* successful start raises it by one, so that the successful starts of a session
\* never outnumber maxAttempts.
C12_AttemptsBounded ==
  /\ []((lmsApi /\ TEST_DATA.maxAttempts # 0) => StoredCounter <= TEST_DATA.maxAttempts)
  /\ [][(lmsApi /\ TEST_DATA.maxAttempts # 0)
          => /\ StoredCounter' >= StoredCounter
             /\ StartedAttempt => StoredCounter' = StoredCounter + 1]_vars

C12_Witness ==
  /\ lmsApi
  /\ TEST_DATA.maxAttempts = MaxAttemptsCfg
  /\ StoredCounter = TEST_DATA.maxAttempts
  /\ state.submitted
  /\ dom.page = "results"

\* C13: every successful start made while a runtime channel exists raises the
\* persisted counter by exactly one, with or without maxAttempts, and starts the
\* countdown exactly when a positive time limit is configured.
C13_StartCountsAttempt ==
  [][(lmsApi /\ StartedAttempt)
       => (StoredCounter' = StoredCounter + 1 /\ TimerAsConfigured)]_vars

\* C15: when the channel throws while the counter is read or written, no exception
\* escapes startTest, and unless the stored counter is used up the start completes:
\* phase = 'question' and the timer runs if one is configured.
C15_ThrowDoesNotBlock ==
  [][(threw' # "no" /\ StartTest)
       => /\ threw' = "caught"
          /\ (TEST_DATA.maxAttempts # 0 /\ StoredCounter < TEST_DATA.maxAttempts)
               => (state'.phase = "question" /\ TimerAsConfigured)]_vars

C15_Witness ==
  /\ threw = "caught"
  /\ state.phase = "question"
  /\ dom.page = "question"
  /\ TEST_DATA.maxAttempts # 0
  /\ suspendData = <<>>
  /\ TEST_DATA.timeLimitMinutes > 0
  /\ state.remainingSeconds = SecondsPerMinute * TEST_DATA.timeLimitMinutes

\* C14: with no runtime API the wrapper's init, setValue, commit and terminate
\* return true and leave cmi.suspend_data alone, and the report on the results
\* page, with or without an API, is the one the variant and the answers alone
\* determine.
C14_StandaloneEquivalent ==
  /\ ~lmsApi => (FALSE \notin scormReturns /\ suspendData = <<>>)
  /\ dom.page = "results"
       => dom.report = ReportOf(state.flatQuestions, state.answers, Len(state.flatQuestions))
  /\ dom.page # "results" => dom.report = NoReport

\* standalone, a test started from the start page shows its results, with a
\* question answered fully right, after the finish sequence returned true
C14_Witness ==
  /\ ~lmsApi
  /\ dom.page = "results"
  /\ state.submitted
  /\ scormReturns = {TRUE}
  /\ finishCalls > 0
  /\ dom.report.correct > 0

\* a <= b on two numbers kept as fractions
AtMost(a, b) == a.num * b.den <= b.num * a.den

\* C16: for every question of the four types and every well-typed answer,
\* checkAnswer returns a ratio in [0, 1]; for an undefined or null answer it
\* returns 0.
C16_RatioInUnitInterval ==
  (call.fn = "checkAnswer" /\ call.done)
    => /\ call.result.den > 0
       /\ 0 <= call.result.num
       /\ call.result.num <= call.result.den
       /\ (call.answer.kind \in {"undefined", "null"} => call.result.num = 0)

C16_Witness ==
  /\ Scored("multiple")
  /\ call.answer.kind = "array"
  /\ Cardinality(Entries(call.answer.list) \ Entries(call.q.correct.correctIndices))
       > Cardinality(Entries(call.answer.list) \cap Entries(call.q.correct.correctIndices))
  /\ Len(call.q.correct.correctIndices) > 0
  /\ call.result.num = 0

\* C17: for a multiple question with n > 0 correct indices the score is
\* max(0, (s - w) / n), s the selected indices that are correct and w those that are
\* not; it is 0 when n = 0; selecting every option never scores higher than
\* selecting exactly the correct subset.
C17_MultipleFormula ==
  (Scored("multiple") /\ call.answer.kind = "array")
    => LET correctSet == Entries(call.q.correct.correctIndices)
           n == Cardinality(correctSet)
           sel == Entries(call.answer.list)
           sw == Cardinality(sel \cap correctSet) - Cardinality(sel \ correctSet)
       IN /\ n = 0 => call.result.num = 0
          /\ n > 0 => SameNumber(call.result, IF sw < 0 THEN Ratio(0, 1) ELSE Ratio(sw, n))
          /\ sel = 0..(MaxOptions - 1)
               => AtMost(call.result,
                         checkAnswer(call.q, Arr(call.q.correct.correctIndices)))

C17_Witness ==
  /\ Scored("multiple")
  /\ call.q.correct.correctIndices = <<0, 2>>
  /\ call.answer = Arr(<<0, 1, 2>>)
  /\ SameNumber(call.result, Ratio(1, 2))

\* C18: for a matching question with n > 0 correct pairs the score is the number of
\* correct pairs (l, r) with answer[l] = r, divided by n; a left index missing from
\* the answer adds nothing; the score is 0 when n = 0.
C18_MatchingFormula ==
  (Scored("matching") /\ call.answer.kind = "object")
    => LET correctPairs == call.q.correct.pairs
           n == Len(correctPairs)
           hits == Cardinality({k \in 1..n : correctPairs[k] \in call.answer.map})
       IN IF n = 0 THEN call.result.num = 0
          ELSE SameNumber(call.result, Ratio(hits, n))

C18_Witness ==
  /\ Scored("matching")
  /\ call.q.correct.pairs = << <<0, 1>>, <<1, 0>> >>
  /\ call.answer = Obj({<<0, 0>>, <<1, 0>>})
  /\ SameNumber(call.result, Ratio(1, 2))

\* C19: for a ranking question the score is 0 when the correct order is empty or
\* the answer has another length; otherwise it is the number of positions i with
\* answer[i] = correctOrder[i], divided by the length.
C19_RankingFormula ==
  (Scored("ranking") /\ call.answer.kind = "array")
    => LET correctOrder == call.q.correct.correctOrder
           order == call.answer.list
       IN IF Len(correctOrder) = 0 \/ Len(order) # Len(correctOrder)
          THEN call.result.num = 0
          ELSE SameNumber(call.result,
                          Ratio(Cardinality({i \in 1..Len(order) : order[i] = correctOrder[i]}),
                                Len(correctOrder)))

C19_Witness ==
  /\ Scored("ranking")
  /\ call.q.correct.correctOrder = <<2, 0, 1>>
  /\ call.answer = Arr(<<2, 0>>)
  /\ call.result.num = 0

\* C20: with correct order [2,0,1] the answer [2,0,1] scores 1, the answer [0,2,1]
\* scores 0, and an answer of another length scores 0.
C20_RankingExample ==
  (Scored("ranking") /\ call.q.correct.correctOrder = <<2, 0, 1>>
     /\ call.answer.kind = "array")
    => /\ call.answer.list = <<2, 0, 1>> => SameNumber(call.result, Ratio(1, 1))
       /\ call.answer.list = <<0, 2, 1>> => SameNumber(call.result, Ratio(0, 1))
       /\ Len(call.answer.list) # 3 => SameNumber(call.result, Ratio(0, 1))

\* C20 as the code has it: with correct order [2,0,1] the answer [2,0,1] scores 1,
\* the answer [0,2,1] scores 1/3 (its last position matches), and an answer of
\* another length scores 0.
C20_RankingExampleOneThird ==
  (Scored("ranking") /\ call.q.correct.correctOrder = <<2, 0, 1>>
     /\ call.answer.kind = "array")
    => /\ call.answer.list = <<2, 0, 1>> => SameNumber(call.result, Ratio(1, 1))
       /\ call.answer.list = <<0, 2, 1>> => SameNumber(call.result, Ratio(1, 3))
       /\ Len(call.answer.list) # 3 => SameNumber(call.result, Ratio(0, 1))

C20_Witness ==
  /\ Scored("ranking")
  /\ call.q.correct.correctOrder = <<2, 0, 1>>
  /\ call.answer = Arr(<<0, 2, 1>>)
  /\ call.result = Ratio(1, 3)

\* C21: checkPassRuleWithPartial returns true for an absent rule, percent >=
\* rule.value for a percent rule (the threshold itself passes, anything below
\* it fails), and fullyCorrectCount >= rule.value for any other rule,
\* whatever the percent argument.
C21_PassRule ==
  (call.fn = "checkPassRuleWithPartial" /\ call.done)
    => /\ call.rule = NoRule => call.result
       /\ (call.rule # NoRule /\ call.rule.type = "percent")
            => (call.result <=> call.percent.num >= call.rule.value * call.percent.den)
       /\ (call.rule # NoRule /\ call.rule.type # "percent")
            => (call.result <=> call.fullyCorrectCount >= call.rule.value)

\* a percent rule met exactly, by a fully correct count below the threshold
C21_Witness ==
  /\ call.fn = "checkPassRuleWithPartial" /\ call.done
  /\ call.rule.type = "percent" /\ call.rule.value > 0
  /\ call.percent.num = call.rule.value * call.percent.den
  /\ call.fullyCorrectCount < call.rule.value
  /\ call.result

\* the score ratio of the i-th question of the variant, by the stored answers
ScoreAt(i) ==
  checkAnswer(Bank[state.flatQuestions[i].question],
              state.answers[state.flatQuestions[i].question])

\* the positions of the variant's questions, overall or of one topic
Positions == 1..Len(state.flatQuestions)
PositionsOf(tid) == {i \in Positions : state.flatQuestions[i].topicId = tid}

FullyCorrect(is) == Cardinality({i \in is : ScoreAt(i).num = ScoreAt(i).den})

RECURSIVE SumOver(_, _)
\* the sum of f[i] over i in `is`, as a fraction
SumOver(f, is) ==
  IF is = {} THEN Ratio(0, 1)
  ELSE LET i == CHOOSE j \in is : TRUE IN Plus(f[i], SumOver(f, is \ {i}))

\* points * ratio of the questions at positions `is`, summed
Earned(is) ==
  SumOver([i \in Positions |-> Times(Bank[state.flatQuestions[i].question].points, ScoreAt(i))],
          is)

\* the report of a finished attempt is on screen
Reported == dom.page = "results" /\ state.submitted

\* C22: in the report the fully correct count, overall and per topic, is the
\* number of questions whose score ratio is exactly 1; a question with partial
\* credit adds points * ratio to the earned points and nothing to the count.
C22_FullyCorrectCount ==
  Reported =>
    LET r == dom.report IN
    /\ r.correct = FullyCorrect(Positions)
    /\ SameNumber(r.earnedPoints, Earned(Positions))
    /\ \A k \in 1..Len(r.topicResults) :
         LET tr == r.topicResults[k] IN
         /\ tr.correct = FullyCorrect(PositionsOf(tr.topicId))
         /\ SameNumber(tr.earnedPoints, Earned(PositionsOf(tr.topicId)))

\* a report over a question with partial credit, which earned points and was
\* not counted, next to a fully correct one
C22_Witness ==
  /\ Reported
  /\ \E i \in Positions : ScoreAt(i).num > 0 /\ ScoreAt(i).num < ScoreAt(i).den
  /\ dom.report.correct = 1
  /\ dom.report.totalQuestions = 2
  /\ SameNumber(dom.report.earnedPoints, Ratio(2, 1))

\* the possible points of the questions at positions `is`
Possible(is) ==
  IF is = {} THEN 0
  ELSE SumOver([i \in Positions |-> Ratio(Bank[state.flatQuestions[i].question].points, 1)],
               is).num

\* the pass rule of a section is met by its topic's percentage and fully correct count
SectionPassed(section) ==
  LET is == PositionsOf(section.topicId)
  IN checkPassRuleWithPartial(section.topicPassRule, Percent(Earned(is), Possible(is)),
                              FullyCorrect(is))

OverallPassed ==
  checkPassRuleWithPartial(TEST_DATA.overallPassRule,
                           Percent(Earned(Positions), Possible(Positions)),
                           FullyCorrect(Positions))

\* C23: the report's passed flag is true iff the overall pass rule is met and
\* the pass rule of every section of the test definition that has one is met
\* by that topic's own percentage and fully correct count, a section from
\* which no question was drawn included.
C23_PassedAllSections ==
  Reported =>
    (dom.report.passed <=>
       /\ OverallPassed
       /\ \A k \in 1..Len(TEST_DATA.sections) : SectionPassed(TEST_DATA.sections[k]))

\* the same for the sections from which a question was drawn
C23_PassedDrawnSections ==
  Reported =>
    (dom.report.passed <=>
       /\ OverallPassed
       /\ \A k \in 1..Len(TEST_DATA.sections) :
            PositionsOf(TEST_DATA.sections[k].topicId) # {}
              => SectionPassed(TEST_DATA.sections[k]))

\* p is (earned / possible) * 100, or 0 when nothing is possible
IsPercentOf(p, earned, possible) ==
  IF possible > 0
  THEN p.num * earned.den * possible = 100 * earned.num * p.den
  ELSE p.num = 0

\* 0 <= earned <= possible
WithinPossible(earned, possible) ==
  /\ AtMost(Ratio(0, 1), earned)
  /\ AtMost(earned, Ratio(possible, 1))

\* C24: the overall and the per-topic percentages are earnedPoints /
\* possiblePoints * 100 with points weighting (0 when possiblePoints is 0), the
\* overall earned and possible points are the sums of the per-topic values, and
\* 0 <= earnedPoints <= possiblePoints overall and per topic.
C24_PointWeightedPercent ==
  Reported =>
    LET r == dom.report
        ks == 1..Len(r.topicResults)
    IN /\ IsPercentOf(r.percent, r.earnedPoints, r.possiblePoints)
       /\ WithinPossible(r.earnedPoints, r.possiblePoints)
       /\ r.possiblePoints = Possible(Positions)
       /\ \A k \in ks :
            /\ IsPercentOf(r.topicResults[k].percent, r.topicResults[k].earnedPoints,
                           r.topicResults[k].possiblePoints)
            /\ WithinPossible(r.topicResults[k].earnedPoints, r.topicResults[k].possiblePoints)
            /\ r.topicResults[k].possiblePoints = Possible(PositionsOf(r.topicResults[k].topicId))
       /\ SameNumber(r.earnedPoints, SumOver([k \in ks |-> r.topicResults[k].earnedPoints], ks))
       /\ r.possiblePoints
            = SumOver([k \in ks |-> Ratio(r.topicResults[k].possiblePoints, 1)], ks).num

\* a topic with a 1-point question answered wrong and a 2-point question
\* answered right: 1 of 2 questions, 2 of 3 points
C24_Witness ==
  /\ Reported
  /\ \E k \in 1..Len(dom.report.topicResults) :
       LET tr == dom.report.topicResults[k] IN
       /\ tr.total = 2 /\ tr.correct = 1 /\ tr.possiblePoints = 3
       /\ SameNumber(tr.percent, Ratio(200, 3))

\* generateVariant has run
Generated == state.variant # <<>>

NoDuplicates(l) == \A i \in 1..Len(l) : \A j \in 1..Len(l) : l[i] = l[j] => i = j

Min(a, b) == IF a < b THEN a ELSE b

\* the number of questions drawn from the first k sections
RECURSIVE DrawnCount(_)
DrawnCount(k) == IF k = 0 THEN 0 ELSE DrawnCount(k - 1) + Len(state.variant[k].questionIds)

\* C25: after generateVariant the question ids drawn for a section are a
\* duplicate-free subset of the section's pool of size min(drawCount, pool
\* size), and the flat question list is a permutation of exactly the drawn
\* questions of all sections, each tagged with the topic of its section.
C25_VariantDraw ==
  Generated =>
    LET sections == TEST_DATA.sections IN
    /\ Len(state.variant) = Len(sections)
    /\ \A k \in 1..Len(sections) :
         LET ids == state.variant[k].questionIds IN
         /\ state.variant[k].topicId = sections[k].topicId
         /\ Len(ids) = Min(sections[k].drawCount, Len(sections[k].questions))
         /\ NoDuplicates(ids)
         /\ Entries(ids) \subseteq Entries(sections[k].questions)
         /\ \A i \in 1..Len(ids) :
              Cardinality({j \in 1..Len(state.flatQuestions) :
                             state.flatQuestions[j]
                               = [question |-> ids[i], topicId |-> sections[k].topicId]}) = 1
    /\ Len(state.flatQuestions) = DrawnCount(Len(sections))

\* a draw count above the pool size took the whole pool, in another order
C25_Witness ==
  /\ Generated
  /\ TEST_DATA.sections[1].drawCount > Len(TEST_DATA.sections[1].questions)
  /\ Len(state.variant[1].questionIds) = 3
  /\ state.variant[1].questionIds # TEST_DATA.sections[1].questions
  /\ Len(state.flatQuestions) = 4
  /\ state.flatQuestions[1].topicId = "t2"

\* the permutations of 0..(n - 1), as arrays
PermutationsOf(n) == {a \in [1..n -> 0..(n - 1)] : NoDuplicates(a)}

\* C26: every mapping createShuffleMapping(n) can produce, over the choices of
\* the random swap indices, is a permutation of 0..n-1 and every permutation of
\* 0..n-1 is produced by some choice; the left and the right mapping of a
\* matching question are such permutations of their own lengths.
C26_ShuffleBijection ==
  /\ \A n \in 0..MaxOptions : createShuffleMapping(n) = PermutationsOf(n)
  /\ Generated =>
       \A i \in Positions :
         LET q == Bank[state.flatQuestions[i].question]
             m == state.shuffleMappings[state.flatQuestions[i].question]
         IN /\ q.type \in {"single", "multiple"} => m.arr \in PermutationsOf(q.optCount)
            /\ q.type = "ranking" => m.arr \in PermutationsOf(q.itemCount)
            /\ q.type = "matching"
                 => (m.left \in PermutationsOf(q.leftCount)
                     /\ m.right \in PermutationsOf(q.rightCount))

\* a drawn matching question whose left items are exchanged and whose right
\* items are not, next to a single question with its options exchanged
C26_Witness ==
  /\ Generated
  /\ \E i \in Positions : state.flatQuestions[i].question = "q3"
  /\ state.shuffleMappings["q3"].left = <<1, 0>>
  /\ state.shuffleMappings["q3"].right = <<0, 1>>
  /\ state.shuffleMappings["q1"].arr = <<1, 0>>

\* the drawn ranking questions that have an item
DrawnRankings ==
  {id \in QIds : /\ \E i \in Positions : state.flatQuestions[i].question = id
                 /\ Bank[id].type = "ranking"
                 /\ Bank[id].itemCount > 0}

\* C27: on the start page, that is after generateVariant at load and after every
\* restart, the stored answer of each drawn ranking question with an item is
\* that question's freshly generated shuffle mapping.
C27_RankingStartsShuffled ==
  state.phase = "start"
    => \A id \in DrawnRankings :
         /\ state.shuffleMappings[id].kind = "array"
         /\ state.answers[id] = Arr(state.shuffleMappings[id].arr)

\* the start page as restart() left it: the last handler made no call of
\* SCORM.init, as window.onload does, and refused nothing, as startTest does
Restarted == state.phase = "start" /\ scormReturns = {} /\ toast = "none"

\* after a restart a ranking question starts from a mapping that is not the
\* original order
C27_Witness ==
  /\ Restarted
  /\ DrawnRankings = {"q4"}
  /\ state.shuffleMappings["q4"].arr = <<1, 0>>
  /\ state.answers["q4"] = Arr(<<1, 0>>)

\* C28: restart from the results screen yields phase 'start', currentIndex 0,
\* submitted, timeExpired and feedbackShown false, no active timer,
\* remainingSeconds null, a newly drawn variant with its own shuffle mappings,
\* and an answers map that holds nothing but the initial order of the drawn
\* ranking questions.
C28_RestartClears ==
  [][(dom.page = "results" /\ state'.phase = "start")
       => /\ state'.currentIndex = 0
          /\ ~state'.submitted /\ ~state'.timeExpired /\ ~state'.feedbackShown
          /\ state'.timerInterval = "null"
          /\ state'.remainingSeconds = NullSeconds
          /\ dom'.page = "start"
          /\ Len(state'.variant) = Len(TEST_DATA.sections)
          /\ \A id \in QIds :
               LET drawn == \E i \in 1..Len(state'.flatQuestions) :
                              state'.flatQuestions[i].question = id
               IN /\ drawn <=> \E k \in 1..Len(state'.variant) :
                                 id \in Entries(state'.variant[k].questionIds)
                  /\ ~drawn => state'.shuffleMappings[id] = NoMapping
                  /\ IF drawn /\ Bank[id].type = "ranking" /\ Bank[id].itemCount > 0
                     THEN state'.answers[id] = Arr(state'.shuffleMappings[id].arr)
                     ELSE state'.answers[id] = Undef]_vars

\* the start page after a restart, with another question drawn than the one
\* that could have been answered and no answer stored
C28_Witness ==
  /\ Restarted
  /\ Len(state.flatQuestions) = 1
  /\ state.flatQuestions[1].question = "q3"
  /\ state.answers = EmptyAnswers
  /\ state.currentIndex = 0
  /\ state.remainingSeconds = NullSeconds
  /\ TEST_DATA.timeLimitMinutes > 0

\* the positions of the last handler's API calls
Calls == 1..Len(apiCalls)

\* the last handler wrote the number x to `key`
WroteNumber(key, x) ==
  \E i \in Calls :
    /\ apiCalls[i].fn = "SetValue" /\ apiCalls[i].key = key
    /\ apiCalls[i].value.str = ""
    /\ SameNumber(apiCalls[i].value.num, x)

\* the last handler wrote the string t to `key`, and nothing else
WroteText(key, t) ==
  /\ \E i \in Calls : apiCalls[i].fn = "SetValue" /\ apiCalls[i].key = key
  /\ \A i \in Calls :
       (apiCalls[i].fn = "SetValue" /\ apiCalls[i].key = key) => apiCalls[i].value = Text(t)

\* C29: on completion the runtime writes cmi.score.raw = the report's earned
\* points, cmi.score.min = 0, cmi.score.max = the report's possible points and
\* cmi.score.scaled = earned / possible (0 when possible is 0), in [0, 1].
C29_ScoreFromPoints ==
  Reported =>
    LET r == dom.report
        scaled == IF r.possiblePoints > 0
                  THEN Ratio(r.earnedPoints.num, r.earnedPoints.den * r.possiblePoints)
                  ELSE Ratio(0, 1)
    IN /\ WroteNumber("cmi.score.raw", r.earnedPoints)
       /\ WroteNumber("cmi.score.min", Ratio(0, 1))
       /\ WroteNumber("cmi.score.max", Ratio(r.possiblePoints, 1))
       /\ WroteNumber("cmi.score.scaled", scaled)
       /\ WithinPossible(scaled, 1)

\* what is written: the rounded percentage as raw score, 0 as min, 100 as max
\* and the rounded percentage over 100 as scaled score, in [0, 1]
C29_ScoreFromPercent ==
  Reported =>
    LET percentScore == Round(dom.report.percent)
    IN /\ WroteNumber("cmi.score.raw", Ratio(percentScore, 1))
       /\ WroteNumber("cmi.score.min", Ratio(0, 1))
       /\ WroteNumber("cmi.score.max", Ratio(100, 1))
       /\ WroteNumber("cmi.score.scaled", Ratio(percentScore, 100))
       /\ WithinPossible(Ratio(percentScore, 100), 1)

\* C30: on completion SCORM.finish writes completion_status 'completed',
\* success_status 'passed' exactly when the report's passed flag is true and
\* 'failed' otherwise, progress_measure '1' and exit 'normal'; every SetValue
\* of the finish sequence precedes the single Commit, and the Commit precedes
\* the Terminate, which is the last call.
C30_FinishSequence ==
  Reported =>
    /\ WroteText("cmi.completion_status", "completed")
    /\ WroteText("cmi.success_status", IF dom.report.passed THEN "passed" ELSE "failed")
    /\ WroteText("cmi.progress_measure", "1")
    /\ WroteText("cmi.exit", "normal")
    /\ Len(apiCalls) >= 2
    /\ apiCalls[Len(apiCalls)].fn = "Terminate"
    /\ apiCalls[Len(apiCalls) - 1].fn = "Commit"
    /\ \A i \in 1..(Len(apiCalls) - 2) : apiCalls[i].fn = "SetValue"

\* a failed attempt reported: the overall rule is met, a topic rule is not
C30_Witness ==
  /\ Reported
  /\ ~dom.report.passed
  /\ OverallPassed
  /\ WroteText("cmi.success_status", "failed")
  /\ \E i \in Calls : apiCalls[i].key = "cmi.interactions.n.id"

\* the last handler wrote `value` to `key` of the record at `index`
WroteAt(key, index, value) ==
  \E i \in Calls :
    /\ apiCalls[i].fn = "SetValue" /\ apiCalls[i].key = key
    /\ apiCalls[i].index = index /\ apiCalls[i].value = value

\* the indices of the records the last handler wrote `key` to, one per write
RecordsOf(key) ==
  [n \in 1..Cardinality({i \in Calls : apiCalls[i].fn = "SetValue" /\ apiCalls[i].key = key}) |->
     apiCalls[CHOOSE i \in Calls :
                /\ apiCalls[i].fn = "SetValue" /\ apiCalls[i].key = key
                /\ Cardinality({j \in 1..i : apiCalls[j].fn = "SetValue"
                                             /\ apiCalls[j].key = key}) = n].index]

\* the status of the objective of a section: by its pass rule, unknown without one
ObjectiveStatus(section) ==
  IF section.topicPassRule = NoRule THEN "unknown"
  ELSE IF SectionPassed(section) THEN "passed" ELSE "failed"

\* the objective record at `index` is the one of `section`
ObjectiveAt(index, section) ==
  LET is == PositionsOf(section.topicId) IN
  /\ WroteAt("cmi.objectives.n.id", index, Text("topic_" \o section.topicId))
  /\ WroteAt("cmi.objectives.n.score.raw", index,
             Number(Ratio(Round(Percent(Earned(is), Possible(is))), 1)))
  /\ WroteAt("cmi.objectives.n.success_status", index, Text(ObjectiveStatus(section)))

\* C31: on completion exactly one objective record is written for each section
\* of the test, with id 'topic_' + topicId, score the rounded topic percentage
\* and status 'passed' or 'failed' by the topic's pass rule, 'unknown' without one.
C31_ObjectivePerSection ==
  Reported =>
    /\ Len(RecordsOf("cmi.objectives.n.id")) = Len(TEST_DATA.sections)
    /\ \A k \in 1..Len(TEST_DATA.sections) :
         \E n \in 0..(Len(TEST_DATA.sections) - 1) : ObjectiveAt(n, TEST_DATA.sections[k])

\* the sections from which a question was drawn, in the order of the test
DrawnSections ==
  SelectSeq(TEST_DATA.sections, LAMBDA section : PositionsOf(section.topicId) # {})

\* what is written: one objective record for each section from which a question
\* was drawn, numbered from 0
C31_ObjectivePerDrawnSection ==
  Reported =>
    /\ Len(RecordsOf("cmi.objectives.n.id")) = Len(DrawnSections)
    /\ \A k \in 1..Len(DrawnSections) :
         \E n \in 0..(Len(DrawnSections) - 1) : ObjectiveAt(n, DrawnSections[k])

\* two objectives written, one failed and one unknown
C31_TwoObjectives ==
  /\ Reported
  /\ Len(RecordsOf("cmi.objectives.n.id")) = 2
  /\ \E n \in 0..1 : WroteAt("cmi.objectives.n.success_status", n, Text("failed"))
  /\ \E n \in 0..1 : WroteAt("cmi.objectives.n.success_status", n, Text("unknown"))

\* `written` is the answer `a` to a question of type t with every index
\* increased by one: the index of a single answer, the indices of a multiple
\* or ranking answer in their order, the left-right pairs of a matching answer
\* by ascending left; nothing for an undefined answer
Serialized(written, t, a) ==
  IF a.kind = "undefined" THEN written = <<>>
  ELSE IF t = "single" THEN written = <<a.num + 1>>
  ELSE IF t \in {"multiple", "ranking"}
  THEN /\ Len(written) = Len(a.list)
       /\ \A k \in 1..Len(a.list) : written[k] = a.list[k] + 1
  ELSE /\ Len(written) = Cardinality(a.map)
       /\ \A pr \in a.map : \E k \in 1..Len(written) : written[k] = <<pr[1] + 1, pr[2] + 1>>
       /\ \A k \in 1..(Len(written) - 1) : written[k][1] < written[k + 1][1]

\* the correct answer of q as an answer value: correctIndex, correctIndices,
\* correctOrder, or the pairs as a left -> right object
CorrectAnswer(q) ==
  IF q.type = "single" THEN Num(q.correct.correctIndex)
  ELSE IF q.type = "multiple" THEN Arr(q.correct.correctIndices)
  ELSE IF q.type = "ranking" THEN Arr(q.correct.correctOrder)
  ELSE Obj(Entries(q.correct.pairs))

\* v is the score ratio r as a number with two decimals
TwoDecimals(v, r) ==
  /\ v.str = "" /\ v.list = <<>>
  /\ (100 * v.num.num) % v.num.den = 0
  /\ 200 * (v.num.num * r.den - r.num * v.num.den) <= v.num.den * r.den
  /\ 200 * (r.num * v.num.den - v.num.num * r.den) <= v.num.den * r.den

\* the interaction record at index j - 1 is the one of the j-th question
InteractionAt(j) ==
  LET id == state.flatQuestions[j].question
      q == Bank[id]
      r == ScoreAt(j)
  IN /\ WroteAt("cmi.interactions.n.id", j - 1, Text("q_" \o id))
     /\ WroteAt("cmi.interactions.n.type", j - 1,
                Text(CASE q.type = "single" -> "choice"
                       [] q.type = "multiple" -> "multiple_choice"
                       [] q.type = "matching" -> "matching"
                       [] q.type = "ranking" -> "sequencing"))
     /\ \E i \in Calls :
          /\ apiCalls[i].key = "cmi.interactions.n.result" /\ apiCalls[i].index = j - 1
          /\ IF r.num = r.den THEN apiCalls[i].value = Text("correct")
             ELSE IF r.num = 0 THEN apiCalls[i].value = Text("incorrect")
             ELSE TwoDecimals(apiCalls[i].value, r)
     /\ \E i \in Calls :
          /\ apiCalls[i].key = "cmi.interactions.n.learner_response"
          /\ apiCalls[i].index = j - 1
          /\ Serialized(apiCalls[i].value.list, q.type, state.answers[id])
     /\ \E i \in Calls :
          /\ apiCalls[i].key = "cmi.interactions.n.correct_responses.0.pattern"
          /\ apiCalls[i].index = j - 1
          /\ Serialized(apiCalls[i].value.list, q.type, CorrectAnswer(q))

\* C32: on completion exactly one interaction record is written per question of
\* the flat list, in flat-list order, with the type tag of the question's type,
\* result 'correct' exactly when the score ratio is 1, 'incorrect' exactly when
\* it is 0 and the ratio as a number otherwise, and the learner response and the
\* correct pattern serialized with every index increased by one.
C32_InteractionPerQuestion ==
  Reported =>
    /\ RecordsOf("cmi.interactions.n.id") = [j \in Positions |-> j - 1]
    /\ \A key \in {"cmi.interactions.n.type", "cmi.interactions.n.result",
                   "cmi.interactions.n.learner_response"} :
         Len(RecordsOf(key)) = Len(state.flatQuestions)
    /\ \A j \in Positions : InteractionAt(j)

\* two interactions written: the first one correct, the second one with partial
\* credit for one selected option of two
C32_Witness ==
  /\ Reported
  /\ Len(state.flatQuestions) = 2
  /\ WroteAt("cmi.interactions.n.result", 0, Text("correct"))
  /\ WroteAt("cmi.interactions.n.type", 1, Text("multiple_choice"))
  /\ WroteAt("cmi.interactions.n.result", 1, Number(Ratio(50, 100)))
  /\ WroteAt("cmi.interactions.n.learner_response", 1, ListOf(<<2>>))

\* C33: without a runtime API the absence is detected by a single probe: window.onload
\* walks the windows at most once and no later handler call walks them again.
C33_SingleProbe ==
  /\ [](~lmsApi => apiProbes <= 1)
  /\ [][~lmsApi => apiProbes' = 0]_vars

\* how often the windows are walked with an API: once, when SCORM.init finds it
C33_ProbeWithApi ==
  /\ [](lmsApi => apiProbes <= 1)
  /\ [][lmsApi => apiProbes' = 0]_vars

\* standalone, a handler call walked the windows several times
C33_ProbedAgain == ~lmsApi /\ dom.page = "results" /\ apiProbes > 1

\* C34: the variant, the flat question list and the shuffle mappings are changed
\* only by generateVariant, at load and on restart: no step of startTest, the
\* timer, an answer handler, confirmAnswer, next or submit changes them.
C34_VariantStable ==
  [][(\/ state'.variant # state.variant
      \/ state'.flatQuestions # state.flatQuestions
      \/ state'.shuffleMappings # state.shuffleMappings)
       => ~(\/ StartTest \/ UpdateTimer \/ SelectSingle \/ ToggleMultiple
            \/ SetMatchWithMapping \/ MoveRank \/ ConfirmAnswer \/ NextClick \/ Submit)]_vars

\* the second question of a timed attempt, answered and confirmed, after ticks
C34_Witness ==
  /\ state.phase = "question"
  /\ state.currentIndex = 1
  /\ Len(state.flatQuestions) = 2
  /\ state.feedbackShown
  /\ state.remainingSeconds > 0
  /\ state.remainingSeconds < SecondsPerMinute * TEST_DATA.timeLimitMinutes
  /\ state.shuffleMappings[CurrentId] # NoMapping
  /\ state.answers[CurrentId] # Undef

\* the display position the select of the row of original left index l shows:
\* rightMapping.indexOf(pairs[l]), -1 when nothing is stored
ShownFor(pairs, rightMapping, l) ==
  IF Lookup(pairs, l) = <<>> THEN -1 ELSE IndexOf(rightMapping, Lookup(pairs, l)[1])

\* C35: for a matching question, choosing display right position d in the row of
\* original left index l stores answers[q][l] = rightMapping[d]; mapped back
\* through rightMapping the stored value is d again, for every d and every
\* permutation; the pairs of the other left items stay, and every left key of
\* the stored answer is an original left index.
C35_MatchingRoundTrip ==
  /\ [](call.fn = "match" /\ call.done /\ call.val # <<>> =>
          LET l == At(call.mapping.left, call.row) IN
          /\ Lookup(call.pairs, l) = <<At(call.mapping.right, call.val[1])>>
          /\ ShownFor(call.pairs, call.mapping.right, l) = call.val[1])
  /\ [](call.fn = "match" => Keys(call.pairs) \subseteq 0..(call.q.leftCount - 1))
  /\ [][call.fn = "match" =>
          LET l == At(call.mapping.left, call'.row) IN
          /\ Delete(call'.pairs, l) = Delete(call.pairs, l)
          /\ call'.val = <<>> => Lookup(call'.pairs, l) = <<>>]_vars

\* both rows of a question were answered through shuffled sides: the second
\* display row holds left item 0 and shows the option chosen in it
C35_Witness ==
  /\ call.fn = "match" /\ call.done /\ call.page = "package"
  /\ call.mapping.left = <<1, 0>> /\ call.mapping.right = <<1, 0>>
  /\ call.row = 1 /\ call.val = <<0>>
  /\ call.pairs = {<<0, 1>>, <<1, 0>>}

\* the answer-presence rule by question type: an answer is there, a multiple
\* selection is not empty, every left item of a matching question is assigned
TakenPresent(q, a) ==
  /\ a # Undef
  /\ q.type = "multiple" => a.list # <<>>
  /\ q.type = "matching" => Keys(a.map) = 0..(q.leftCount - 1)

\* C36: in the learner page a submission is sent only when every question
\* satisfies the type-specific answer-presence rule that Next applies, whatever
\* the navigation through Previous and the numbered buttons was.
C36_SubmitNeedsAnswers ==
  (call.fn = "take-test" /\ call.submitted) =>
    \A i \in 1..Len(call.flatQuestions) : TakenPresent(call.flatQuestions[i], call.answers[i])

\* what handleSubmit guarantees: no answer of a sent submission is undefined
C36_SubmitNeedsDefined ==
  (call.fn = "take-test" /\ call.submitted) =>
    \A i \in 1..Len(call.flatQuestions) : call.answers[i] # Undef

\* a sent submission that does satisfy the rule, of an attempt that begins
\* with a matching question
C36_SentAfterPrevious ==
  /\ call.fn = "take-test" /\ call.submitted
  /\ \A i \in 1..Len(call.flatQuestions) : TakenPresent(call.flatQuestions[i], call.answers[i])
  /\ call.flatQuestions[1].type = "matching"

\* C40: in the learner page an order the learner set with the move buttons is
\* never overwritten by the deferred default-order initialisation, whatever the
\* interleaving of renders, callbacks and clicks, and a stored ranking answer
\* is always a permutation of the item indices.
C40_RankingKept ==
  /\ [](call.fn = "take-test" =>
          \A i \in 1..Len(call.flatQuestions) :
            (call.flatQuestions[i].type = "ranking" /\ call.answers[i] # Undef) =>
              call.answers[i].list \in PermutationsOf(call.flatQuestions[i].itemCount))
  /\ [][call.fn = "take-test" =>
          \A i \in 1..Len(call.flatQuestions) :
            (call.pending'[i] < call.pending[i] /\ call.answers[i] # Undef) =>
              call.answers'[i] = call.answers[i]]_vars

\* the part of C40 that holds: a stored ranking answer is a permutation
C40_RankingPermutation ==
  call.fn = "take-test" =>
    \A i \in 1..Len(call.flatQuestions) :
      (call.flatQuestions[i].type = "ranking" /\ call.answers[i] # Undef) =>
        call.answers[i].list \in PermutationsOf(call.flatQuestions[i].itemCount)

\* a callback is still scheduled for a ranking question whose order was set
C40_CallbackAfterMove ==
  /\ call.fn = "take-test"
  /\ \E i \in 1..Len(call.flatQuestions) :
       /\ call.pending[i] > 0
       /\ call.answers[i] # Undef
       /\ call.answers[i].list # initialOrder(call.flatQuestions[i], call.shuffleMappings[i])

\* C37: once SCORM.terminate has called Terminate on the LMS API, no GetValue,
\* SetValue or Commit reaches that API any more: not in the rest of the finish
\* sequence, and not from the handler that follows it (restart and the start
\* page it renders, the begin of a second attempt).
C37_SilentAfterTerminate ==
  [][(apiCalls # <<>> /\ apiCalls[Len(apiCalls)].fn = "Terminate") =>
       \A i \in 1..Len(apiCalls') : apiCalls'[i].fn \notin {"GetValue", "SetValue", "Commit"}]_vars

\* within the handler that finishes the attempt Terminate is the last API call
C37_TerminateLastInHandler ==
  \A i \in Calls : apiCalls[i].fn = "Terminate" => i = Len(apiCalls)

\* the positions of the variant after the question on screen
Unseen == {i \in Positions : i > state.currentIndex + 1}

\* C38: when the timer forces the submission, every question at a position
\* after the currentIndex of the expiry contributes no earned points to the
\* report and is not counted as fully correct, whatever its type.
C38_UnseenScoreNothing ==
  [][(~state.timeExpired /\ state'.timeExpired /\ state'.submitted) =>
       /\ \A i \in Unseen : ScoreAt(i).num = 0
       /\ dom'.report.correct = FullyCorrect(Positions \ Unseen)
       /\ SameNumber(dom'.report.earnedPoints, Earned(Positions \ Unseen))]_vars

\* C39: without an LMS API the attempts-used counter reads 0 after any number
\* of started attempts: nothing is stored, the start page never disables its
\* button, and startTest is never refused for lack of attempts.
C39_StandaloneUnlimited ==
  /\ [](~lmsApi =>
          /\ suspendData = <<>>
          /\ getAttemptsUsed(World).ret = 0
          /\ toast # "noAttempts"
          /\ dom.page = "start" => dom.nav = "startTest")
  /\ [][(~lmsApi /\ dom.page = "start" /\ StartTest) => state'.phase = "question"]_vars

\* the start page a restart rendered without an API (one discovery walk, by
\* renderStartPage; the load makes two) of a test with an attempt limit: the
\* attempt before it was started, and the button is enabled
C39_Witness ==
  /\ ~lmsApi
  /\ TEST_DATA.maxAttempts = MaxAttemptsCfg
  /\ dom.page = "start" /\ dom.nav = "startTest"
  /\ apiProbes = 1

=============================================================================
